---------------------------- MODULE Spec2Model ----------------------------
(***************************************************************************)
(* Client-side request lifecycle synchronisation layer of UNITE:           *)
(*   - the data hooks useEventRequestsV2 / useRequestDetailsV2,            *)
(*   - the action hook useRequestActionsV2,                                *)
(*   - the client cache (utils/requestCache) they share,                   *)
(*   - the window event bus ('unite:requests-changed',                     *)
(*     'unite:force-refresh-requests'),                                    *)
(*   - the capability resolver getAvailableActionsV2.                      *)
(* Strings whose content the code inspects (cache keys, statuses) are      *)
(* sequences of one-character strings.                                     *)
(***************************************************************************)
EXTENDS Integers, Sequences, FiniteSets, TLC

(***************************************************************************)
(* Bounds of the model.                                                    *)
(***************************************************************************)
\* fetchRequests / fetchDetails invocations per hook instance
MaxFetches == 3
\* executeAction calls of the action hook instance in flight at a time
MaxActions == 1
\* entries of a user's permissions list
MaxPerms == 2
\* executeAction calls in flight at a time on a page that lets them overlap
MaxOverlap == 2
\* polling timers a hook instance creates
MaxTimers == 3

(***************************************************************************)
(* String literals of the source.                                          *)
(***************************************************************************)
ListKeyPrefix == <<"e","v","e","n","t","-","r","e","q","u","e","s","t","s","-","v","2","-">>
DetailKeyPrefix == <<"e","v","e","n","t","-","r","e","q","u","e","s","t","-","v","2","-">>
InvalidatePattern == [kind |-> "regex", src |-> <<"e","v","e","n","t","-","r","e","q","u","e","s","t","s">>]
StatusKey == <<"s","t","a","t","u","s">>
PendingReviewStr == <<"p","e","n","d","i","n","g","-","r","e","v","i","e","w">>
\* status literals
PENDING_APPROVAL == <<"p","e","n","d","i","n","g","_","a","p","p","r","o","v","a","l">>
PENDING_REVIEW_SPACED == <<"p","e","n","d","i","n","g"," ","r","e","v","i","e","w">>
RESCHEDULE_REQUESTED == <<"r","e","s","c","h","e","d","u","l","e","_","r","e","q","u","e","s","t","e","d">>
PENDING_RESCHEDULE == <<"p","e","n","d","i","n","g","_","r","e","s","c","h","e","d","u","l","e">>
CANCELLED == <<"c","a","n","c","e","l","l","e","d">>
REJECTED == <<"r","e","j","e","c","t","e","d">>
COMPLETED == <<"c","o","m","p","l","e","t","e","d">>
APPROVED == <<"a","p","p","r","o","v","e","d">>
PENDING_REVIEW == <<"p","e","n","d","i","n","g","-","r","e","v","i","e","w">>
REVIEW_RESCHEDULED == <<"r","e","v","i","e","w","-","r","e","s","c","h","e","d","u","l","e","d">>
\* the status strings a request may carry
StatusStrings == {
    <<"p","e","n","d","i","n","g","-","r","e","v","i","e","w">>,
    <<"P","e","n","d","i","n","g","-","R","e","v","i","e","w">>,
    <<"a","p","p","r","o","v","e","d">>,
    <<"A","P","P","R","O","V","E","D">>,
    <<"r","e","j","e","c","t","e","d">>,
    <<"R","e","j","e","c","t","e","d">>,
    <<"r","e","v","i","e","w","-","r","e","s","c","h","e","d","u","l","e","d">>,
    <<"R","e","v","i","e","w","-","R","e","s","c","h","e","d","u","l","e","d">>,
    <<"c","a","n","c","e","l","l","e","d">>,
    <<"C","A","N","C","E","L","L","E","D">>,
    <<"p","e","n","d","i","n","g","_","a","p","p","r","o","v","a","l">>,
    <<"p","e","n","d","i","n","g"," ","r","e","v","i","e","w">>,
    <<"r","e","s","c","h","e","d","u","l","e","_","r","e","q","u","e","s","t","e","d">>,
    <<"P","e","n","d","i","n","g","_","R","e","s","c","h","e","d","u","l","e">>,
    <<"c","o","m","p","l","e","t","e","d">>,
    <<"a","r","c","h","i","v","e","d">>,
    <<>> }


EvChanged == "unite:requests-changed"
EvForce == "unite:force-refresh-requests"

(***************************************************************************)
(* Instances and inputs.                                                   *)
(***************************************************************************)
\* the hook instances of a page are DOMAIN lhook (list) and DOMAIN dhook (detail)
\* filter objects: a sequence of <<key, value>> properties
PendingFilter == << <<StatusKey, PendingReviewStr>> >>
Filters == { <<>>, PendingFilter }
IdA == <<"A">>
IdB == <<"B">>
RequestIds == {IdA, IdB}
\* the requestId carried by an event detail: a string or undefined
Missing == [defined |-> FALSE, v |-> <<>>]
Defined(id) == [defined |-> TRUE, v |-> id]
EventIds == {Defined(id) : id \in RequestIds} \cup {Missing}

\* [] for the list, null for pagination and the detail
NoData == [src |-> "none", n |-> 0]
\* what the server answers to network call n of hook h
Resp(h, n) == [src |-> h, n |-> n]
NoError == "null"

VARIABLES lhook, dhook, ahook, cache, resolver, capcheck, walker, svc, auth, flags,
          unwrap

\* the state of the data hooks, the action hook and the client cache
hookVars == <<lhook, dhook, ahook, cache>>
\* the state of the components that call the utility functions
utilVars == <<capcheck, walker, svc, auth, flags, unwrap>>

vars == <<lhook, dhook, ahook, cache, resolver, capcheck, walker, svc, auth, flags,
          unwrap>>

(***************************************************************************)
(* Strings.                                                                *)
(***************************************************************************)
\* String.prototype.includes / RegExp.test for a literal pattern
Contains(hay, needle) ==
    \E i \in 0..(Len(hay) - Len(needle)) :
        \A j \in 1..Len(needle) : hay[i + j] = needle[j]

RECURSIVE JoinProps(_)
JoinProps(props) ==
    IF props = <<>> THEN <<>>
    ELSE LET p == Head(props)
             one == <<"\"">> \o p[1] \o <<"\"", ":", "\"">> \o p[2] \o <<"\"">>
         IN IF Tail(props) = <<>> THEN one
            ELSE one \o <<",">> \o JoinProps(Tail(props))

\* JSON.stringify of a filter object with string values
JsonStringify(filters) == <<"{">> \o JoinProps(filters) \o <<"}">>

\* useEventRequestsV2: cacheKey
ListCacheKey(filters) == ListKeyPrefix \o JsonStringify(filters)

\* useRequestDetailsV2: getCacheKey
DetailCacheKey(requestId) == DetailKeyPrefix \o requestId

(***************************************************************************)
(* Client cache (utils/requestCache): a map from key to value.             *)
(***************************************************************************)
getCachedResponse(c, key) == IF key \in DOMAIN c THEN c[key] ELSE NoData

HasCached(c, key) == key \in DOMAIN c

cacheResponse(c, key, value) ==
    [k \in (DOMAIN c) \cup {key} |-> IF k = key THEN value ELSE c[k]]

\* whether invalidateCache(pattern) removes the entry under key
PatternMatches(pattern, key) ==
    IF pattern.kind = "regex" THEN Contains(key, pattern.src)
    ELSE key = pattern.src

invalidateCache(c, pattern) ==
    [k \in {x \in DOMAIN c : ~PatternMatches(pattern, x)} |-> c[k]]

(***************************************************************************)
(* useEventRequestsV2.                                                     *)
(***************************************************************************)
\* fetchRequests that reads the cache also when forceRefresh is set
fetchRequests_CacheOnForce(h, c, forceRefresh) ==
    LET key == ListCacheKey(h.filters)
        n == h.nStarted + 1
        h1 == [h EXCEPT !.mountedRef = TRUE, !.loading = TRUE,
                        !.error = NoError, !.nStarted = n]
    IN IF h.enableCache /\ HasCached(c, key)
       THEN [h1 EXCEPT !.requests = getCachedResponse(c, key),
                       !.pagination = getCachedResponse(c, key),
                       !.loading = FALSE,
                       !.last = "cache"]
       ELSE [h1 EXCEPT !.inflight = @ \cup {[n |-> n, filters |-> h.filters]},
                       !.netCalls = @ + 1,
                       !.last = "pending"]

\* a hook under a recorder keeps the cache key its visible data was fetched
\* or cached for
ShownFor(h, key) ==
    IF "dataKey" \in DOMAIN h THEN [h EXCEPT !.dataKey = key] ELSE h

\* fetchRequests up to its first await; c is the cache it reads
fetchRequests(h, c, forceRefresh) ==
    LET key == ListCacheKey(h.filters)
        n == h.nStarted + 1
        h1 == [h EXCEPT !.mountedRef = TRUE, !.loading = TRUE,
                        !.error = NoError, !.nStarted = n]
    IN IF h.enableCache /\ ~forceRefresh /\ HasCached(c, key)
       THEN ShownFor([h1 EXCEPT !.requests = getCachedResponse(c, key),
                                !.pagination = getCachedResponse(c, key),
                                !.loading = FALSE,
                                !.last = "cache"], key)
       ELSE [h1 EXCEPT !.inflight = @ \cup {[n |-> n, filters |-> h.filters]},
                       !.netCalls = @ + 1,
                       !.last = "pending"]

\* handleRefreshEvent run once per dispatched event
RECURSIVE ListOnEvents(_, _, _)
ListOnEvents(h, c, evs) ==
    IF evs = <<>> THEN h
    ELSE ListOnEvents(fetchRequests(h, c, TRUE), c, Tail(evs))

\* fetchRequests after the await of a call that resolved
ListResolved(h, f) ==
    LET h0 == [h EXCEPT !.inflight = @ \ {f},
                        !.last = IF f.n = h.nStarted THEN "ok" ELSE @]
    IN IF ~h.mountedRef THEN h0
       ELSE ShownFor([h0 EXCEPT !.requests = Resp(h.name, f.n),
                                !.pagination = Resp(h.name, f.n),
                                !.loading = FALSE], ListCacheKey(f.filters))

\* fetchRequests after the await of a call that rejected
ListRejected(h, f) ==
    LET h0 == [h EXCEPT !.inflight = @ \ {f},
                        !.last = IF f.n = h.nStarted THEN "fail" ELSE @]
    IN IF ~h.mountedRef THEN h0
       ELSE [h0 EXCEPT !.error = "Failed to fetch event requests",
                       !.requests = NoData,
                       !.pagination = NoData,
                       !.loading = FALSE]

(***************************************************************************)
(* useRequestDetailsV2.                                                    *)
(***************************************************************************)
\* the listener without its requestId test
DetailEventMatches_AnyId(ev, requestId) == TRUE

\* the listener's test of the event against the hook's subject
DetailEventMatches(ev, requestId) ==
    ev.requestId.defined /\ ev.requestId.v = requestId

\* fetchDetails that goes to the network without reading the cache
fetchDetails_NoCacheRead(h, c, forceRefresh) ==
    LET n == h.nStarted + 1
        h0 == [h EXCEPT !.nStarted = n]
    IN IF h.requestId = <<>>
       THEN [h0 EXCEPT !.error = "Request ID is required", !.loading = FALSE,
                       !.last = "invalid"]
       ELSE [h0 EXCEPT !.loading = TRUE, !.error = NoError,
                       !.inflight = @ \cup {[n |-> n, requestId |-> h.requestId]},
                       !.netCalls = @ + 1,
                       !.last = "pending"]

\* fetchDetails up to its first await
fetchDetails(h, c, forceRefresh) ==
    LET key == DetailCacheKey(h.requestId)
        n == h.nStarted + 1
        h0 == [h EXCEPT !.nStarted = n]
    IN IF h.requestId = <<>>
       THEN [h0 EXCEPT !.error = "Request ID is required", !.loading = FALSE,
                       !.last = "invalid"]
       ELSE LET h1 == [h0 EXCEPT !.loading = TRUE, !.error = NoError]
            IN IF h.enableCache /\ ~forceRefresh /\ HasCached(c, key)
               THEN ShownFor([h1 EXCEPT !.request = getCachedResponse(c, key),
                                        !.loading = FALSE,
                                        !.last = "cache"], key)
               ELSE [h1 EXCEPT !.inflight = @ \cup {[n |-> n, requestId |-> h.requestId]},
                               !.netCalls = @ + 1,
                               !.last = "pending"]

RECURSIVE DetailOnEvents(_, _, _)
DetailOnEvents(h, c, evs) ==
    IF evs = <<>> THEN h
    ELSE LET h1 == IF DetailEventMatches(Head(evs), h.requestId)
                   THEN fetchDetails(h, c, TRUE) ELSE h
         IN DetailOnEvents(h1, c, Tail(evs))

DetailResolved(h, f) ==
    LET h0 == [h EXCEPT !.inflight = @ \ {f},
                        !.last = IF f.n = h.nStarted THEN "ok" ELSE @]
    IN IF ~h.mountedRef THEN h0
       ELSE ShownFor([h0 EXCEPT !.request = Resp(h.name, f.n), !.loading = FALSE],
                     DetailCacheKey(f.requestId))

DetailRejected(h, f) ==
    LET h0 == [h EXCEPT !.inflight = @ \ {f},
                        !.last = IF f.n = h.nStarted THEN "fail" ELSE @]
    IN IF ~h.mountedRef THEN h0
       ELSE [h0 EXCEPT !.error = "Failed to fetch request details",
                       !.request = NoData,
                       !.loading = FALSE]

(***************************************************************************)
(* window.dispatchEvent: every listener runs before it returns.            *)
(***************************************************************************)
Subscribed(h) == h.phase = "mounted"

\* the fetches one more dispatch may start must fit the bound
RoomFor(k) ==
    /\ \A L \in DOMAIN lhook : Subscribed(lhook[L]) => lhook[L].nStarted + k <= MaxFetches
    /\ \A D \in DOMAIN dhook : Subscribed(dhook[D]) => dhook[D].nStarted + k <= MaxFetches

Deliver(evs, c) ==
    /\ lhook' = [L \in DOMAIN lhook |->
                    IF Subscribed(lhook[L]) THEN ListOnEvents(lhook[L], c, evs)
                    ELSE lhook[L]]
    /\ dhook' = [D \in DOMAIN dhook |->
                    IF Subscribed(dhook[D]) THEN DetailOnEvents(dhook[D], c, evs)
                    ELSE dhook[D]]

(***************************************************************************)
(* Permission utilities: hasCapability, canPerformRequestActionV2,         *)
(* getAvailableActionsV2.                                                  *)
(***************************************************************************)
UpperCase == <<"A","B","C","D","E","F","G","H","I","J","K","L","M",
               "N","O","P","Q","R","S","T","U","V","W","X","Y","Z">>
LowerCase == <<"a","b","c","d","e","f","g","h","i","j","k","l","m",
               "n","o","p","q","r","s","t","u","v","w","x","y","z">>

LowerChar(ch) ==
    IF \E i \in 1..26 : UpperCase[i] = ch
    THEN LowerCase[CHOOSE i \in 1..26 : UpperCase[i] = ch]
    ELSE ch

\* String.prototype.toLowerCase
toLowerCase(str) == [i \in 1..Len(str) |-> LowerChar(str[i])]

\* a value that may be undefined / null
Undefined == [defined |-> FALSE, v |-> <<>>]
Some(x) == [defined |-> TRUE, v |-> x]

\* request.status?.toLowerCase()
LoweredStatus(request) ==
    IF request.status.defined THEN Some(toLowerCase(request.status.v)) ELSE Undefined

\* PermGrants without the wildcard resource
PermGrants_NoWildcardResource(perm, resource, action) ==
    perm.resource = resource /\ ("*" \in perm.actions \/ action \in perm.actions)

\* one permission entry grants resource.action
PermGrants(perm, resource, action) ==
    \/ perm.resource = "*" /\ ("*" \in perm.actions \/ action \in perm.actions)
    \/ perm.resource = resource /\ ("*" \in perm.actions \/ action \in perm.actions)

\* hasCapability for a capability 'resource.action'
hasCapability(user, resource, action) ==
    IF ~user.defined THEN FALSE
    ELSE IF user.v.permissions.defined
         THEN \E perm \in user.v.permissions.v : PermGrants(perm, resource, action)
    ELSE IF user.v.roles.defined
         THEN \E role \in user.v.roles.v :
                 /\ role.permissions.defined
                 /\ \E perm \in role.permissions.v : PermGrants(perm, resource, action)
    ELSE FALSE

\* actionCapabilityMap: the action names it has an entry for
MappedActions == {"accept", "reject", "reschedule", "confirm", "decline", "cancel"}

\* actionCapabilityMap: the action of the capability 'request.<action>' it requires
RequiredAction(action) ==
    CASE action \in {"accept", "reject"} -> "review"
      [] action \in {"reschedule", "confirm", "decline"} -> "update"
      [] action = "cancel" -> "cancel"

canPerformRequestActionV2(user, action) ==
    IF ~user.defined THEN FALSE
    ELSE IF action \notin MappedActions THEN FALSE
    ELSE hasCapability(user, "request", RequiredAction(action))

\* the status literals getAvailableActionsV2 compares with
ReviewStatuses == {PENDING_APPROVAL, PENDING_REVIEW_SPACED}
RescheduleStatuses == {RESCHEDULE_REQUESTED, PENDING_RESCHEDULE}
\* nonCancellableStatuses without 'rejected'
nonCancellableStatuses_NoRejected == {CANCELLED, COMPLETED}

nonCancellableStatuses == {CANCELLED, REJECTED, COMPLETED}

\* the actions pushed when cond holds and the user can perform them, in order
Offer(cond, user, names) ==
    IF cond THEN SelectSeq(names, LAMBDA a : canPerformRequestActionV2(user, a))
    ELSE << >>

getAvailableActionsV2(user, request) ==
    IF ~user.defined \/ ~request.defined THEN << >>
    ELSE LET status == LoweredStatus(request.v)
             is(set) == status.defined /\ status.v \in set
         IN    Offer(is(ReviewStatuses), user, <<"accept", "reject">>)
            \o Offer(is(RescheduleStatuses), user, <<"confirm", "decline">>)
            \o Offer(~is(nonCancellableStatuses), user, <<"cancel">>)
            \o Offer(is({APPROVED}), user, <<"reschedule">>)

(***************************************************************************)
(* Inputs of the resolver.                                                 *)
(***************************************************************************)
Resources == {"*", "request", "event"}
ActionSets == {{}, {"*"}, {"review"}, {"update"}, {"cancel"}, {"review", "update"}}
PermEntries == {[resource |-> r, actions |-> a] : r \in Resources, a \in ActionSets}
PermLists == {ps \in SUBSET PermEntries : Cardinality(ps) <= MaxPerms}
RoleLists == {Undefined, Some({}),
              Some({[permissions |-> Undefined]}),
              Some({[permissions |-> Some({[resource |-> "request", actions |-> {"*"}]})]})}
Users == {Undefined}
         \cup {Some([permissions |-> Some(ps), roles |-> Undefined]) : ps \in PermLists}
         \cup {Some([permissions |-> Undefined, roles |-> r]) : r \in RoleLists}
         \cup {Some([permissions |-> Some({}), roles |-> r]) : r \in RoleLists \ {Undefined}}
StatusInputs == {Undefined} \cup {Some(st) : st \in StatusStrings}
Parties == {"requester", "reviewer"}
\* request.activeResponder?.relationship
Responders == {Undefined} \cup {Some(p) : p \in Parties}
Requests == {Undefined}
            \cup {Some([status |-> st, activeResponder |-> ar]) :
                     st \in StatusInputs, ar \in Responders}

\* the resolver has not been called
ResolverIdle == [called |-> FALSE, user |-> Undefined, request |-> Undefined,
                 viewerIs |-> "reviewer", actions |-> << >>]

(***************************************************************************)
(* A component asking for one capability and for the permitted actions.    *)
(***************************************************************************)
\* capability strings as capability.split('.') yields them
Capabilities == {<<"request", "review">>, <<"request", "update">>,
                 <<"request", "cancel">>, <<"request", "create">>,
                 <<"event", "review">>, <<"request">>, << >>}

\* hasCapability(user, capability): the guards on the capability string, then
\* the match over the first two segments
hasCapabilityOf(user, capability) ==
    IF Len(capability) < 2 THEN FALSE
    ELSE hasCapability(user, capability[1], capability[2])

\* the capability strings one permission list yields, each as its segments:
\* '*' alone when an entry has the wildcard resource and the wildcard action
AllCapabilities == {<<"*">>}
GrantsAll(perms) == \E perm \in perms : perm.resource = "*" /\ "*" \in perm.actions
PermCapabilities(perms) ==
    UNION {{<<perm.resource, action>> : action \in perm.actions} : perm \in perms}

\* the permission lists of the roles that carry one
RolePermissions(roles) ==
    UNION {role.permissions.v : role \in {r \in roles : r.permissions.defined}}

\* getUserCapabilities: the user's own permissions first, the roles when the
\* user has no permissions list or it yielded nothing
getUserCapabilities(user) ==
    IF ~user.defined THEN {}
    ELSE LET own == IF user.v.permissions.defined THEN user.v.permissions.v ELSE {}
             capabilities == PermCapabilities(own)
         IN IF GrantsAll(own) THEN AllCapabilities
            ELSE IF (~user.v.permissions.defined \/ capabilities = {})
                    /\ user.v.roles.defined
                 THEN IF GrantsAll(RolePermissions(user.v.roles.v))
                      THEN AllCapabilities
                      ELSE capabilities \cup PermCapabilities(RolePermissions(user.v.roles.v))
            ELSE capabilities

\* users that have both a permissions list and roles
MixedUsers ==
    {Some([permissions |-> Some({perm}), roles |-> r]) :
        perm \in {[resource |-> "request", actions |-> {}],
                  [resource |-> "event", actions |-> {"review"}]},
        r \in RoleLists \ {Undefined}}

\* the action names asked about: the six request actions and an unmapped name
AskedActions == MappedActions \cup {"assign"}

\* no capability question has been asked
CapIdle == [asked |-> FALSE, mapped |-> FALSE, user |-> Undefined,
            capability |-> << >>, result |-> FALSE, allowed |-> {}]

(***************************************************************************)
(* The walk over a response for the actions the server declares.           *)
(***************************************************************************)
\* nesting of the responses walked
MaxNest == 5

\* visit: const maxDepth = 4
maxDepth == 4

\* JSON values
UndefinedNode == [kind |-> "undefined", fields |-> [k \in {} |-> 0], elems |-> << >>, v |-> << >>]
Obj(fields) == [kind |-> "object", fields |-> fields, elems |-> << >>, v |-> << >>]
Arr(elems) == [kind |-> "array", fields |-> [k \in {} |-> 0], elems |-> elems, v |-> << >>]
Str(chars) == [kind |-> "string", fields |-> [k \in {} |-> 0], elems |-> << >>, v |-> chars]
True == [kind |-> "boolean", fields |-> [k \in {} |-> 0], elems |-> << >>, v |-> <<"true">>]

\* JavaScript truthiness of a value
Truthy(node) ==
    \/ node.kind \in {"object", "array"}
    \/ node.kind = "string" /\ node.v # << >>
    \/ node.kind = "boolean" /\ node.v = <<"true">>

\* typeof val === 'object' for a truthy value
IsObjectType(node) == node.kind \in {"object", "array"}

\* node[key]
Get(node, key) ==
    IF node.kind = "object" /\ key \in DOMAIN node.fields
    THEN node.fields[key] ELSE UndefinedNode

\* String.prototype.trim
RECURSIVE trimStart(_)
trimStart(str) ==
    IF str # << >> /\ Head(str) = " " THEN trimStart(Tail(str)) ELSE str

RECURSIVE trimEnd(_)
trimEnd(str) ==
    IF str # << >> /\ str[Len(str)] = " "
    THEN trimEnd(SubSeq(str, 1, Len(str) - 1)) ELSE str

trim(str) == trimEnd(trimStart(str))

\* normalizeActionName: "" for a value that is not a string
normalizeActionName(node) ==
    IF node.kind = "string" THEN toLowerCase(trim(node.v)) ELSE << >>

ACCEPT == <<"a","c","c","e","p","t">>
REJECT == <<"r","e","j","e","c","t">>

\* the table of boolean flags and the action each stands for
BOOLEAN_FLAG_TO_ACTION == [canAccept |-> ACCEPT, canReject |-> REJECT]

AllowedActionKeys == {"allowedActions", "allowed_actions", "allowed_actions_list"}

\* the names a node carries directly: its allowed-action arrays, its flags
Ingest(node) ==
    LET listed == UNION {
            LET candidate == Get(node, key)
            IN IF candidate.kind = "array"
               THEN {normalizeActionName(candidate.elems[i]) :
                        i \in 1..Len(candidate.elems)} \ {<< >>}
               ELSE {} : key \in AllowedActionKeys}
        flagged == {BOOLEAN_FLAG_TO_ACTION[flag] :
                      flag \in {f \in DOMAIN BOOLEAN_FLAG_TO_ACTION : Truthy(Get(node, f))}}
    IN listed \cup flagged

\* visit(node, depth): the set of names added while walking node
RECURSIVE visit(_, _)
visit(node, depth) ==
    IF ~Truthy(node) \/ depth > maxDepth THEN {}
    ELSE IF node.kind = "array"
    THEN Ingest(node) \cup UNION {visit(node.elems[i], depth + 1) :
                                     i \in 1..Len(node.elems)}
    ELSE LET event == Get(node, "event")
             reviewer == Get(node, "reviewer")
             proposal == Get(node, "rescheduleProposal")
             proposedBy == Get(proposal, "proposedBy")
             history == Get(node, "decisionHistory")
             named ==
                (IF Truthy(event) THEN visit(event, depth + 1) ELSE {})
                \cup (IF Truthy(reviewer) THEN visit(reviewer, depth + 1) ELSE {})
                \cup (IF Truthy(proposal) /\ Truthy(proposedBy)
                      THEN visit(proposedBy, depth + 1) ELSE {})
                \cup (IF history.kind = "array"
                      THEN UNION {visit(history.elems[i], depth + 1) :
                                    i \in 1..Len(history.elems)}
                      ELSE {})
             generic ==
                IF node.kind = "object"
                THEN UNION {visit(node.fields[k], depth + 1) :
                              k \in {k \in DOMAIN node.fields :
                                       Truthy(node.fields[k]) /\ IsObjectType(node.fields[k])}}
                ELSE {}
         IN Ingest(node) \cup named \cup generic

\* useAllowedActionSet(payload)
useAllowedActionSet(payload) ==
    visit(payload.request, 0) \cup visit(payload.fullRequest, 0)
        \cup visit(payload.resolvedRequest, 0)

\* how a child hangs on its parent: under a key of an object, or as the
\* element of an array
Steps == {"data", "event", "rescheduleProposal", "proposedBy", "decisionHistory", "[]"}

\* the signals a node can carry
Leaves == {
    Obj([allowedActions |-> Arr(<<Str(<<" ","A","c","c","e","p","t"," ">>), Str(ACCEPT)>>)]),
    Obj([allowed_actions |-> Arr(<<Str(<<"R","E","J","E","C","T">>), Str(<<" ">>)>>)]),
    Obj([canReject |-> True, name |-> Str(<<"x">>)]) }

\* the value reached from the root by the steps, carrying leaf at its end
RECURSIVE Nest(_, _)
Nest(steps, leaf) ==
    IF steps = << >> THEN leaf
    ELSE IF Head(steps) = "[]" THEN Arr(<<Nest(Tail(steps), leaf)>>)
    ELSE Obj([k \in {Head(steps)} |-> Nest(Tail(steps), leaf)])

StepSeqs == UNION {[1..n -> Steps] : n \in 0..MaxNest}

\* the responses handed to the walk
Responses == {Nest(steps, leaf) : steps \in StepSeqs, leaf \in Leaves}

\* the walk has not run
WalkIdle == [walked |-> FALSE,
             payload |-> [request |-> UndefinedNode, fullRequest |-> UndefinedNode,
                          resolvedRequest |-> UndefinedNode],
             set |-> {}]

(***************************************************************************)
(* A component calling the service function executeRequestActionV2.        *)
(***************************************************************************)
\* no service call has been made
SvcIdle == [netCalls |-> 0, pending |-> 0, error |-> NoError]

\* executeRequestActionV2 up to its await: the validation, then the request
executeRequestActionV2(sv, action, hasProposedDate) ==
    IF action = "reschedule" /\ ~hasProposedDate
    THEN [sv EXCEPT !.error = "proposedDate is required for reschedule action"]
    ELSE [sv EXCEPT !.netCalls = @ + 1, !.pending = @ + 1, !.error = NoError]

(***************************************************************************)
(* The envelope unwrap of the service: handleV2Response.                   *)
(***************************************************************************)
False == [kind |-> "boolean", fields |-> [k \in {} |-> 0], elems |-> << >>, v |-> <<"false">>]
NullNode == [kind |-> "null", fields |-> [k \in {} |-> 0], elems |-> << >>, v |-> << >>]

\* the message of the error thrown for an envelope without one
ApiRequestFailed == <<"A","P","I"," ","r","e","q","u","e","s","t"," ","f","a","i","l","e","d">>

\* handleV2Response that takes a falsy data field for a failure
handleV2Response_RequiresData(response) ==
    IF ~Truthy(Get(response, "success")) \/ ~Truthy(Get(response, "data"))
    THEN [kind |-> "throws",
          message |-> IF Truthy(Get(response, "message"))
                      THEN Get(response, "message").v ELSE ApiRequestFailed,
          value |-> UndefinedNode]
    ELSE [kind |-> "returns", message |-> << >>, value |-> Get(response, "data")]

\* handleV2Response: the data of a successful envelope, an Error otherwise
handleV2Response(response) ==
    IF ~Truthy(Get(response, "success"))
    THEN [kind |-> "throws",
          message |-> IF Truthy(Get(response, "message"))
                      THEN Get(response, "message").v ELSE ApiRequestFailed,
          value |-> UndefinedNode]
    ELSE [kind |-> "returns", message |-> << >>, value |-> Get(response, "data")]

\* the envelopes a server sends: each field present or not
SuccessValues == {True, False, UndefinedNode}
MessageValues == {UndefinedNode, Str(<< >>), Str(<<"m">>), Str(<<"n","o"," ","r","o","l","e">>)}
DataValues == {UndefinedNode, NullNode, Arr(<< >>), Obj([k \in {} |-> 0]), Str(<< >>), False,
               Obj([id |-> Str(<<"A">>)]), Arr(<<Obj([id |-> Str(<<"A">>)])>>)}
Envelopes ==
    { Obj([success |-> s, message |-> m, data |-> d]) :
        s \in SuccessValues, m \in MessageValues, d \in DataValues }

\* nothing has been unwrapped
UnwrapIdle == [response |-> UndefinedNode,
               outcome |-> [kind |-> "none", message |-> << >>, value |-> UndefinedNode]]

(***************************************************************************)
(* The authenticated fetch gateway: fetchWithAuth and fetchJsonWithAuth.   *)
(***************************************************************************)
\* gateway calls whose network request has not been answered
MaxRequests == 2

SignInPath == <<"/","a","u","t","h","/","s","i","g","n","i","n">>
AuthPrefix == <<"/","a","u","t","h">>
DashboardPath == <<"/","d","a","s","h","b","o","a","r","d">>
PermissionWord == <<"p","e","r","m","i","s","s","i","o","n">>
PermissionDeniedPhrase == <<"p","e","r","m","i","s","s","i","o","n"," ","d","e","n","i","e","d">>
RequestFailed == <<"R","e","q","u","e","s","t"," ","f","a","i","l","e","d">>
TokenExpiredMessage == <<"T","o","k","e","n"," ","e","x","p","i","r","e","d">>

\* a storage slot: no item, or a token that is still valid or has expired
NoToken == [present |-> FALSE, expired |-> FALSE]
ValidToken == [present |-> TRUE, expired |-> FALSE]
ExpiredToken == [present |-> TRUE, expired |-> TRUE]
Slots == {NoToken, ValidToken, ExpiredToken}

\* localStorage.getItem('unite_token') || sessionStorage.getItem('unite_token'),
\* null where there is no window
StoredToken(a) ==
    IF ~a.hasWindow THEN NoToken
    ELSE IF a.local.present THEN a.local
    ELSE a.session

\* tokenManager.isTokenExpired
isTokenExpired(token) == token.expired

\* tokenManager.clearAuthTokens
clearAuthTokens(a) == [a EXCEPT !.local = NoToken, !.session = NoToken]

\* window.location.pathname.startsWith('/auth') in a browser
OnAuthRoute(a) ==
    /\ Len(a.pathname) >= Len(AuthPrefix)
    /\ SubSeq(a.pathname, 1, Len(AuthPrefix)) = AuthPrefix

\* window.location.href = '/auth/signin'
Redirect(a) == [a EXCEPT !.pathname = SignInPath, !.redirects = TRUE]

\* no outcome yet
NoOutcome == [kind |-> "none", message |-> << >>, status |-> 0,
              body |-> [message |-> << >>, error |-> << >>], isAuthError |-> FALSE]

\* fetchWithAuth that sends without looking at the expiry
fetchWithAuth_NoExpiryCheck(a, caller) ==
    [a EXCEPT !.pending[caller] = @ + 1,
              !.last = [NoOutcome EXCEPT !.kind = "pending"]]

\* fetchWithAuth up to its await: the expiry check, then the request
fetchWithAuth(a, caller) ==
    LET token == StoredToken(a)
    IN IF token.present /\ isTokenExpired(token)
       THEN LET cleared == clearAuthTokens(a)
                moved == IF a.hasWindow /\ ~OnAuthRoute(a) THEN Redirect(cleared)
                         ELSE cleared
            IN [moved EXCEPT !.last = [NoOutcome EXCEPT !.kind = "rejected",
                                                       !.message = TokenExpiredMessage]]
       ELSE [a EXCEPT !.pending[caller] = @ + 1,
                      !.last = [NoOutcome EXCEPT !.kind = "pending"]]

\* parsed bodies of error responses; "" stands for an absent field
Bodies == {
    [message |-> << >>, error |-> << >>],
    [message |-> <<"U","n","a","u","t","h","o","r","i","z","e","d">>, error |-> << >>],
    [message |-> <<"P","e","r","m","i","s","s","i","o","n"," ","d","e","n","i","e","d">>, error |-> << >>],
    [message |-> <<"n","o"," ","p","e","r","m","i","s","s","i","o","n"," ","h","e","r","e">>, error |-> << >>],
    [message |-> << >>, error |-> <<"I","n","s","u","f","f","i","c","i","e","n","t"," ","P","E","R","M","I","S","S","I","O","N">>] }
StatusTexts == {<< >>, <<"F","o","r","b","i","d","d","e","n">>}
Statuses == {200, 400, 401, 403, 500}

\* res.ok
Ok(status) == status >= 200 /\ status <= 299

\* (body.message || body.error) || res.statusText || 'Request failed'
ErrorMessage(body, statusText) ==
    IF body.message # << >> THEN body.message
    ELSE IF body.error # << >> THEN body.error
    ELSE IF statusText # << >> THEN statusText
    ELSE RequestFailed

\* isPermissionError that looks at the status only
isPermissionError_StatusOnly(status, msg) == status = 403

\* isPermissionError
isPermissionError(status, msg) ==
    \/ status = 403
    \/ Contains(toLowerCase(msg), PermissionDeniedPhrase)
    \/ Contains(toLowerCase(msg), PermissionWord)

\* fetchJsonWithAuth after its awaits, for the response (status, body, statusText)
fetchJsonWithAuthSettles(a, status, body, statusText) ==
    LET a0 == [a EXCEPT !.pending["json"] = @ - 1]
    IN IF Ok(status)
       THEN [a0 EXCEPT !.last = [NoOutcome EXCEPT !.kind = "ok", !.status = status,
                                                 !.body = body]]
       ELSE LET msg == ErrorMessage(body, statusText)
                err == [kind |-> "rejected", message |-> msg, status |-> status,
                        body |-> body, isAuthError |-> status \in {401, 403}]
                a1 == IF status \in {401, 403} /\ StoredToken(a0).present
                         /\ status = 401 /\ ~isPermissionError(status, msg)
                      THEN LET cleared == clearAuthTokens(a0)
                           IN IF a0.hasWindow /\ ~OnAuthRoute(a0)
                              THEN [cleared EXCEPT !.timers = @ + 1]
                              ELSE cleared
                      ELSE a0
            IN [a1 EXCEPT !.last = err]

\* the gateway has not been called
AuthIdle == [hasWindow |-> TRUE, local |-> NoToken, session |-> NoToken,
             pathname |-> DashboardPath, redirects |-> FALSE, timers |-> 0,
             pending |-> [raw |-> 0, json |-> 0], last |-> NoOutcome]

(***************************************************************************)
(* The feature-flag store and its subscribers.                             *)
(***************************************************************************)
V2_REQUEST_FLOW == "v2_request_flow"
PERMISSION_BASED_UI == "permission_based_ui"
BROADCAST_VISIBILITY == "broadcast_visibility"
IDENTITY_RESCHEDULE == "identity_reschedule"
FeatureFlag == {V2_REQUEST_FLOW, PERMISSION_BASED_UI, BROADCAST_VISIBILITY,
                IDENTITY_RESCHEDULE}

DEFAULT_FLAGS == [f \in FeatureFlag |-> FALSE]

\* localStorage.getItem gives null for a missing item; an unset environment
\* variable is undefined
Null == "null"
Undef == "undefined"

\* String(enabled)
BoolString(enabled) == IF enabled THEN "true" ELSE "false"

\* getFeatureFlag that asks the environment before the stored override
getFeatureFlag_EnvFirst(fl, flag) ==
    IF fl.env[flag] # Undef THEN fl.env[flag] = "true"
    ELSE IF fl.hasWindow /\ fl.store[flag] # Null THEN fl.store[flag] = "true"
    ELSE DEFAULT_FLAGS[flag]

\* getFeatureFlag
getFeatureFlag(fl, flag) ==
    IF fl.hasWindow /\ fl.store[flag] # Null THEN fl.store[flag] = "true"
    ELSE IF fl.env[flag] # Undef THEN fl.env[flag] = "true"
    ELSE DEFAULT_FLAGS[flag]

\* handleFlagChange of one subscriber
handleFlagChange(sub, event) ==
    IF event.flag = sub.flag THEN [sub EXCEPT !.enabled = event.enabled] ELSE sub

\* window.dispatchEvent('unite:feature-flag-changed'): the listeners of the
\* mounted subscribers run
DispatchFlagChanged(fl, event) ==
    [fl EXCEPT !.subs = [S \in DOMAIN fl.subs |->
                            IF fl.subs[S].phase = "mounted"
                            THEN handleFlagChange(fl.subs[S], event)
                            ELSE fl.subs[S]],
               !.events = Append(@, event)]

\* setFeatureFlag(flag, enabled)
setFeatureFlag(fl, flag, enabled) ==
    IF ~fl.hasWindow THEN [fl EXCEPT !.events = << >>]
    ELSE LET stored == [fl EXCEPT !.store[flag] = BoolString(enabled), !.events = << >>]
         IN DispatchFlagChanged(stored, [flag |-> flag, enabled |-> enabled])

\* clearFeatureFlag(flag)
clearFeatureFlag(fl, flag) ==
    IF ~fl.hasWindow THEN [fl EXCEPT !.events = << >>]
    ELSE LET removed == [fl EXCEPT !.store[flag] = Null, !.events = << >>]
         IN DispatchFlagChanged(removed,
                [flag |-> flag, enabled |-> getFeatureFlag(removed, flag)])

\* the flags the components of the page use
UsedFlags == {V2_REQUEST_FLOW, PERMISSION_BASED_UI}
\* what a storage item and an environment variable can hold
StoredValues == {Null, "true", "false", "yes"}
EnvValues == {Undef, "true", "false", "1"}

\* nothing asked of the store
NoAnswer == [flag |-> "none", value |-> FALSE]

\* the store is untouched and has no subscriber
FlagsIdle == [hasWindow |-> TRUE, store |-> [f \in FeatureFlag |-> Null],
              env |-> [f \in FeatureFlag |-> Undef], subs |-> << >>,
              events |-> << >>, call |-> "none", got |-> NoAnswer]

\* the utility components other than v are idle
IdleExcept(v) ==
    /\ v = "capcheck" \/ capcheck = CapIdle
    /\ v = "walker" \/ walker = WalkIdle
    /\ v = "svc" \/ svc = SvcIdle
    /\ v = "auth" \/ auth = AuthIdle
    /\ v = "flags" \/ flags = FlagsIdle
    /\ v = "unwrap" \/ unwrap = UnwrapIdle

\* an action of the utility component v leaves the others as they are
OthersUnchanged(v) ==
    /\ IF v = "capcheck" THEN TRUE ELSE UNCHANGED capcheck
    /\ IF v = "walker" THEN TRUE ELSE UNCHANGED walker
    /\ IF v = "svc" THEN TRUE ELSE UNCHANGED svc
    /\ IF v = "auth" THEN TRUE ELSE UNCHANGED auth
    /\ IF v = "flags" THEN TRUE ELSE UNCHANGED flags
    /\ IF v = "unwrap" THEN TRUE ELSE UNCHANGED unwrap

UtilIdle == IdleExcept("none")

\* no data hook on the page, the action hook idle, the cache empty
NoPage ==
    /\ lhook = << >>
    /\ dhook = << >>
    /\ ahook = [loading |-> FALSE, error |-> NoError,
                inflight |-> [id \in RequestIds |-> 0]]
    /\ cache = << >>

(***************************************************************************)
(* The auto-refresh effects. live holds the timers that setInterval made    *)
(* and clearInterval has not cleared; timer 0 stands for null.             *)
(***************************************************************************)
\* the effect of the list hook: a timer kept in refreshIntervalRef
StartListPolling(h) ==
    IF ~h.autoRefresh THEN h
    ELSE LET t == h.timersMade + 1
         IN [h EXCEPT !.live = @ \cup {t}, !.refreshIntervalRef = t, !.timersMade = t]

\* a cleanup that leaves the timer running
StopListPolling_KeepsTimer(h) == h

\* its cleanup, also the cleanup on unmount: clears the timer in the ref
StopListPolling(h) ==
    IF h.refreshIntervalRef # 0 THEN [h EXCEPT !.live = @ \ {h.refreshIntervalRef}] ELSE h

\* the effect runs again for hook state h: the cleanup the last run returned,
\* if it had autoRefresh, then the effect
RerunListPolling(old, h) ==
    StartListPolling(IF old.autoRefresh THEN StopListPolling(h) ELSE h)

\* the effect of the detail hook: a timer kept in the local const interval
StartDetailPolling(h) ==
    IF ~h.autoRefresh THEN h
    ELSE LET t == h.timersMade + 1
         IN [h EXCEPT !.live = @ \cup {t}, !.interval = t, !.timersMade = t]

\* its cleanup: clearInterval(interval)
StopDetailPolling(h) == [h EXCEPT !.live = @ \ {h.interval}]

RerunDetailPolling(old, h) ==
    StartDetailPolling(IF old.autoRefresh THEN StopDetailPolling(h) ELSE h)

(***************************************************************************)
(* Initial state: every hook constructed (first render), none mounted.     *)
(***************************************************************************)
InitList(L, filters, enableCache) ==
    [name |-> L, phase |-> "init", mountedRef |-> TRUE, filters |-> filters,
     enableCache |-> enableCache, requests |-> NoData, pagination |-> NoData,
     loading |-> TRUE, error |-> NoError, inflight |-> {}, nStarted |-> 0,
     netCalls |-> 0, last |-> "none",
     autoRefresh |-> FALSE, refreshInterval |-> 30000, live |-> {},
     refreshIntervalRef |-> 0, timersMade |-> 0]

InitDetail(D, requestId, enableCache) ==
    [name |-> D, phase |-> "init", mountedRef |-> TRUE, requestId |-> requestId,
     enableCache |-> enableCache, request |-> NoData,
     loading |-> TRUE, error |-> NoError, inflight |-> {}, nStarted |-> 0,
     netCalls |-> 0, last |-> "none",
     autoRefresh |-> FALSE, live |-> {}, interval |-> 0, timersMade |-> 0]

\* a page holding the list hooks Ls (filters among Fs) and the detail hooks Ds
\* (requestId among Ids, the empty id for a detail view with nothing
\* selected), with the enableCache option among Ec
InitPageIds(Ls, Fs, Ds, Ids, Ec) ==
    /\ \E fs \in [Ls -> Fs], ec \in [Ls -> Ec] :
          lhook = [L \in Ls |-> InitList(L, fs[L], ec[L])]
    /\ \E ec \in [Ds -> Ec], ids \in [Ds -> Ids] :
          dhook = [D \in Ds |-> InitDetail(D, ids[D], ec[D])]
    /\ ahook = [loading |-> FALSE, error |-> NoError,
                inflight |-> [id \in RequestIds |-> 0]]
    /\ cache = << >>
    /\ resolver = ResolverIdle
    /\ UtilIdle

\* the page whose detail views show request IdA
InitPage(Ls, Fs, Ds, Ec) == InitPageIds(Ls, Fs, Ds, {IdA}, Ec)

\* one list view
Init == InitPage({"L1"}, Filters, {}, BOOLEAN)

\* two list views with the cache enabled
InitLists == InitPage({"L1", "L2"}, Filters, {}, {TRUE})

\* one list view of the pending requests and one detail view, the cache enabled
InitBoth == InitPage({"L1"}, {PendingFilter}, {"D1"}, {TRUE})

(***************************************************************************)
(* Actions of the list hook.                                               *)
(***************************************************************************)
\* mount effects: the initial fetch; the listeners are live from here
MountList(L) ==
    /\ lhook[L].phase = "init"
    /\ lhook' = [lhook EXCEPT ![L] =
                    StartListPolling([fetchRequests(lhook[L], cache, FALSE)
                                         EXCEPT !.phase = "mounted"])]
    /\ UNCHANGED <<dhook, ahook, cache, resolver, utilVars>>

\* cleanup on unmount
UnmountList(L) ==
    /\ lhook[L].phase = "mounted"
    /\ lhook' = [lhook EXCEPT ![L] =
                    LET h == IF @.autoRefresh THEN StopListPolling(@) ELSE @
                    IN StopListPolling([h EXCEPT !.phase = "unmounted",
                                                 !.mountedRef = FALSE])]
    /\ UNCHANGED <<dhook, ahook, cache, resolver, utilVars>>

\* refresh(), through a reference the caller may keep after unmount
RefreshList(L) ==
    /\ lhook[L].phase # "init"
    /\ lhook[L].nStarted < MaxFetches
    /\ lhook' = [lhook EXCEPT ![L] = fetchRequests(lhook[L], cache, TRUE)]
    /\ UNCHANGED <<dhook, ahook, cache, resolver, utilVars>>

ListFetchResolves(L) ==
    \E f \in lhook[L].inflight :
        /\ lhook' = [lhook EXCEPT ![L] = ListResolved(lhook[L], f)]
        /\ cache' = IF lhook[L].mountedRef /\ lhook[L].enableCache
                    THEN cacheResponse(cache, ListCacheKey(f.filters), Resp(L, f.n))
                    ELSE cache
        /\ UNCHANGED <<dhook, ahook, resolver, utilVars>>

ListFetchRejects(L) ==
    \E f \in lhook[L].inflight :
        /\ lhook' = [lhook EXCEPT ![L] = ListRejected(lhook[L], f)]
        /\ UNCHANGED <<dhook, ahook, cache, resolver, utilVars>>

\* invalidate()
InvalidateList(L) ==
    /\ lhook[L].phase # "init"
    /\ HasCached(cache, ListCacheKey(lhook[L].filters))
    /\ cache' = invalidateCache(cache, [kind |-> "string", src |-> ListCacheKey(lhook[L].filters)])
    /\ UNCHANGED <<lhook, dhook, ahook, resolver, utilVars>>

(***************************************************************************)
(* Actions of the detail hook.                                             *)
(***************************************************************************)
MountDetail(D) ==
    /\ dhook[D].phase = "init"
    /\ dhook' = [dhook EXCEPT ![D] =
                    StartDetailPolling([fetchDetails(dhook[D], cache, FALSE)
                                           EXCEPT !.phase = "mounted"])]
    /\ UNCHANGED <<lhook, ahook, cache, resolver, utilVars>>

UnmountDetail(D) ==
    /\ dhook[D].phase = "mounted"
    /\ dhook' = [dhook EXCEPT ![D] =
                    LET h == IF @.autoRefresh THEN StopDetailPolling(@) ELSE @
                    IN [h EXCEPT !.phase = "unmounted", !.mountedRef = FALSE]]
    /\ UNCHANGED <<lhook, ahook, cache, resolver, utilVars>>

RefreshDetail(D) ==
    /\ dhook[D].phase # "init"
    /\ dhook[D].nStarted < MaxFetches
    /\ dhook' = [dhook EXCEPT ![D] = fetchDetails(dhook[D], cache, TRUE)]
    /\ UNCHANGED <<lhook, ahook, cache, resolver, utilVars>>

DetailFetchResolves(D) ==
    \E f \in dhook[D].inflight :
        /\ dhook' = [dhook EXCEPT ![D] = DetailResolved(dhook[D], f)]
        /\ cache' = IF dhook[D].mountedRef /\ dhook[D].enableCache
                    THEN cacheResponse(cache, DetailCacheKey(f.requestId), Resp(D, f.n))
                    ELSE cache
        /\ UNCHANGED <<lhook, ahook, resolver, utilVars>>

DetailFetchRejects(D) ==
    \E f \in dhook[D].inflight :
        /\ dhook' = [dhook EXCEPT ![D] = DetailRejected(dhook[D], f)]
        /\ UNCHANGED <<lhook, ahook, cache, resolver, utilVars>>

(***************************************************************************)
(* Actions of the action hook.                                             *)
(***************************************************************************)
ActionNames == {"accept", "reschedule", ""}

\* ValidationError without the proposed-date rule
ValidationError_NoDateRule(requestId, action, hasProposedDate) ==
    IF requestId = <<>> THEN "Request ID is required"
    ELSE IF action = "" THEN "Action is required"
    ELSE NoError

\* the message of the validation that fails, NoError when all pass
ValidationError(requestId, action, hasProposedDate) ==
    IF requestId = <<>> THEN "Request ID is required"
    ELSE IF action = "" THEN "Action is required"
    ELSE IF action = "reschedule" /\ ~hasProposedDate
         THEN "Proposed date is required for reschedule action"
    ELSE NoError

\* service calls of the action hook that have not settled
ActionsInFlight == ahook.inflight[IdA] + ahook.inflight[IdB]

\* whether a recorder is attached to the action hook: it keeps the arguments
\* of the calls in flight and what the call that settled last did; where
\* fetches race with actions it also keeps that call and how many fetches the
\* data hooks had started when it settled
Recording == "settled" \in DOMAIN ahook

\* what a caller of executeAction gets back, and what the call did to the
\* cache and to the window before it settled
Outcome(kind, message, effects) ==
    [kind |-> kind, message |-> message, effects |-> effects]

\* how many fetches each data hook of the page has started so far
FetchesStarted ==
    [lists |-> [L \in DOMAIN lhook |-> lhook[L].nStarted],
     details |-> [D \in DOMAIN dhook |-> dhook[D].nStarted]]

\* the call started (and, with an outcome, ended) under the recorder
Started(a, call) ==
    IF "settled" \in DOMAIN a THEN [a EXCEPT !.calls = Append(@, call)] ELSE a

Settled(a, call, outcome) ==
    IF "settled" \in DOMAIN a
    THEN LET i == CHOOSE k \in 1..Len(a.calls) : a.calls[k] = call
             b == [a EXCEPT !.calls = SubSeq(@, 1, i - 1) \o SubSeq(@, i + 1, Len(@)),
                            !.settled = outcome]
         IN IF "fetchesBefore" \in DOMAIN a
            THEN [b EXCEPT !.settledCall = call, !.fetchesBefore = FetchesStarted]
            ELSE b
    ELSE a

\* the calls on requestId that may settle: the recorded ones, or one whose
\* arguments nobody kept
CallsInFlight(requestId) ==
    IF Recording
    THEN {ahook.calls[k] : k \in {n \in 1..Len(ahook.calls) : ahook.calls[n].requestId = requestId}}
    ELSE {[requestId |-> requestId, action |-> "accept"]}

\* executeAction up to its first await, at most cap service calls in flight
ExecuteActionUpTo(cap, requestId, action, hasProposedDate) ==
    /\ LET err == ValidationError(requestId, action, hasProposedDate)
           call == [requestId |-> requestId, action |-> action]
       IN IF err # NoError
          THEN ahook' = Settled(Started([ahook EXCEPT !.error = err, !.loading = FALSE], call),
                                call, Outcome("rejected", err, << >>))
          ELSE /\ ActionsInFlight < cap
               /\ ahook' = Started([ahook EXCEPT !.error = NoError, !.loading = TRUE,
                                                  !.inflight[requestId] = @ + 1], call)
    /\ UNCHANGED <<lhook, dhook, cache, resolver, utilVars>>

ExecuteAction(requestId, action, hasProposedDate) ==
    ExecuteActionUpTo(MaxActions, requestId, action, hasProposedDate)

\* the events executeAction dispatches on success, in order
ActionEvents(requestId) ==
    << [name |-> EvChanged, requestId |-> Defined(requestId)],
       [name |-> EvForce, requestId |-> Defined(requestId)] >>

\* SuccessEffects with the events dispatched before the cache is invalidated
SuccessEffects_EventsFirst(call) ==
    << [op |-> "dispatchEvent", name |-> EvChanged,
        detail |-> [requestId |-> call.requestId, action |-> call.action,
                    timestamp |-> "Date.now()", shouldRefresh |-> TRUE,
                    forceRefresh |-> TRUE]],
       [op |-> "dispatchEvent", name |-> EvForce,
        detail |-> [requestId |-> call.requestId,
                    reason |-> call.action \o "-action"]],
       [op |-> "invalidateCache", pattern |-> InvalidatePattern] >>

\* what executeAction does after the service call resolved, in order
SuccessEffects(call) ==
    << [op |-> "invalidateCache", pattern |-> InvalidatePattern],
       [op |-> "dispatchEvent", name |-> EvChanged,
        detail |-> [requestId |-> call.requestId, action |-> call.action,
                    timestamp |-> "Date.now()", shouldRefresh |-> TRUE,
                    forceRefresh |-> TRUE]],
       [op |-> "dispatchEvent", name |-> EvForce,
        detail |-> [requestId |-> call.requestId,
                    reason |-> call.action \o "-action"]] >>

\* the service call resolved: invalidate, dispatch both events, loading off
ActionResolves(id) ==
    /\ ahook.inflight[id] > 0
    /\ RoomFor(2)
    /\ cache' = invalidateCache(cache, InvalidatePattern)
    /\ Deliver(ActionEvents(id), cache')
    /\ \E call \in CallsInFlight(id) :
          ahook' = Settled([ahook EXCEPT !.inflight[id] = @ - 1, !.loading = FALSE],
                           call, Outcome("resolved", NoError, SuccessEffects(call)))
    /\ UNCHANGED <<resolver, utilVars>>

\* the messages of the errors the service call rejects with
ThrownMessages ==
    IF Recording THEN {"Token expired", "Permission denied"}
    ELSE {"Failed to execute action"}

\* the service call rejected with an Error carrying message
ActionRejects(id) ==
    /\ ahook.inflight[id] > 0
    /\ \E call \in CallsInFlight(id), message \in ThrownMessages :
          ahook' = Settled([ahook EXCEPT !.inflight[id] = @ - 1, !.loading = FALSE,
                                         !.error = IF message # "" THEN message
                                                   ELSE "Failed to execute action: "
                                                            \o call.action],
                           call, Outcome("rejected", message, << >>))
    /\ UNCHANGED <<lhook, dhook, cache, resolver, utilVars>>

(***************************************************************************)
(* Re-renders with another filter or id, invalidate() of the detail hook,   *)
(* and the expiry of cache entries.                                        *)
(***************************************************************************)
\* the component re-renders with filters of another cache key: the fetch
\* effect runs again
ChangeFilters(L, filters) ==
    /\ lhook[L].phase = "mounted"
    /\ ListCacheKey(filters) # ListCacheKey(lhook[L].filters)
    /\ lhook[L].nStarted < MaxFetches
    /\ lhook[L].autoRefresh => lhook[L].timersMade < MaxTimers
    /\ lhook' = [lhook EXCEPT ![L] =
                    RerunListPolling(lhook[L],
                        fetchRequests([lhook[L] EXCEPT !.filters = filters], cache, FALSE))]
    /\ UNCHANGED <<dhook, ahook, cache, resolver, utilVars>>

\* the component re-renders with another requestId: fetchDetails is a new
\* callback and the fetch effect runs again
ChangeRequestId(D, requestId) ==
    /\ dhook[D].phase = "mounted"
    /\ requestId # dhook[D].requestId
    /\ dhook[D].nStarted < MaxFetches
    /\ dhook[D].autoRefresh => dhook[D].timersMade < MaxTimers
    /\ dhook' = [dhook EXCEPT ![D] =
                    RerunDetailPolling(dhook[D],
                        fetchDetails([dhook[D] EXCEPT !.requestId = requestId], cache, FALSE))]
    /\ UNCHANGED <<lhook, ahook, cache, resolver, utilVars>>

\* the effects of a list hook that was cleaned up run again on the same
\* instance, state and refs kept (React StrictMode): the fetch effect, whose
\* initialFetchDoneRef is set, fetches, and the listeners are registered
RemountList(L) ==
    /\ lhook[L].phase = "unmounted"
    /\ lhook[L].nStarted < MaxFetches
    /\ lhook[L].autoRefresh => lhook[L].timersMade < MaxTimers
    /\ lhook' = [lhook EXCEPT ![L] =
                    StartListPolling([fetchRequests(lhook[L], cache, FALSE)
                                         EXCEPT !.phase = "mounted"])]
    /\ UNCHANGED <<dhook, ahook, cache, resolver, utilVars>>

\* the same for a detail hook; nothing sets its mountedRef again
RemountDetail(D) ==
    /\ dhook[D].phase = "unmounted"
    /\ dhook[D].nStarted < MaxFetches
    /\ dhook[D].autoRefresh => dhook[D].timersMade < MaxTimers
    /\ dhook' = [dhook EXCEPT ![D] =
                    StartDetailPolling([fetchDetails(dhook[D], cache, FALSE)
                                           EXCEPT !.phase = "mounted"])]
    /\ UNCHANGED <<lhook, ahook, cache, resolver, utilVars>>

\* the component re-renders with another autoRefresh option
SetListAutoRefresh(L, autoRefresh) ==
    /\ lhook[L].phase = "mounted"
    /\ autoRefresh # lhook[L].autoRefresh
    /\ autoRefresh => lhook[L].timersMade < MaxTimers
    /\ lhook' = [lhook EXCEPT ![L] =
                    RerunListPolling(lhook[L], [lhook[L] EXCEPT !.autoRefresh = autoRefresh])]
    /\ UNCHANGED <<dhook, ahook, cache, resolver, utilVars>>

\* the component re-renders with another refreshInterval option
ChangeRefreshInterval(L, refreshInterval) ==
    /\ lhook[L].phase = "mounted"
    /\ refreshInterval # lhook[L].refreshInterval
    /\ lhook[L].autoRefresh => lhook[L].timersMade < MaxTimers
    /\ lhook' = [lhook EXCEPT ![L] =
                    RerunListPolling(lhook[L],
                                     [lhook[L] EXCEPT !.refreshInterval = refreshInterval])]
    /\ UNCHANGED <<dhook, ahook, cache, resolver, utilVars>>

\* a timer of the list hook fires: fetchRequests(true)
ListPollFires(L) ==
    /\ lhook[L].nStarted < MaxFetches
    /\ \E t \in lhook[L].live :
          lhook' = [lhook EXCEPT ![L] = fetchRequests(lhook[L], cache, TRUE)]
    /\ UNCHANGED <<dhook, ahook, cache, resolver, utilVars>>

SetDetailAutoRefresh(D, autoRefresh) ==
    /\ dhook[D].phase = "mounted"
    /\ autoRefresh # dhook[D].autoRefresh
    /\ autoRefresh => dhook[D].timersMade < MaxTimers
    /\ dhook' = [dhook EXCEPT ![D] =
                    RerunDetailPolling(dhook[D], [dhook[D] EXCEPT !.autoRefresh = autoRefresh])]
    /\ UNCHANGED <<lhook, ahook, cache, resolver, utilVars>>

\* a timer of the detail hook fires: fetchDetails(true)
DetailPollFires(D) ==
    /\ dhook[D].nStarted < MaxFetches
    /\ \E t \in dhook[D].live :
          dhook' = [dhook EXCEPT ![D] = fetchDetails(dhook[D], cache, TRUE)]
    /\ UNCHANGED <<lhook, ahook, cache, resolver, utilVars>>

\* invalidate() of the detail hook
InvalidateDetail(D) ==
    /\ dhook[D].phase # "init"
    /\ HasCached(cache, DetailCacheKey(dhook[D].requestId))
    /\ cache' = invalidateCache(cache, [kind |-> "string",
                                        src |-> DetailCacheKey(dhook[D].requestId)])
    /\ UNCHANGED <<lhook, dhook, ahook, resolver, utilVars>>

\* the time to live of a cache entry runs out: reads find it absent
CacheEntryExpires(key) ==
    /\ key \in DOMAIN cache
    /\ cache' = [k \in DOMAIN cache \ {key} |-> cache[k]]
    /\ UNCHANGED <<lhook, dhook, ahook, resolver, utilVars>>

(***************************************************************************)
(* Other components dispatching 'unite:requests-changed' or                *)
(* 'unite:force-refresh-requests' with or without a requestId.             *)
(***************************************************************************)
ExternalDispatch(name, rid) ==
    /\ RoomFor(1)
    /\ Deliver(<< [name |-> name, requestId |-> rid] >>, cache)
    /\ UNCHANGED <<ahook, cache, resolver, utilVars>>

ListNext ==
    \/ \E L \in DOMAIN lhook : MountList(L)
    \/ \E L \in DOMAIN lhook : UnmountList(L)
    \/ \E L \in DOMAIN lhook : RefreshList(L)
    \/ \E L \in DOMAIN lhook : ListFetchResolves(L)
    \/ \E L \in DOMAIN lhook : ListFetchRejects(L)
    \/ \E L \in DOMAIN lhook : InvalidateList(L)

\* refresh() of the detail hook called by its component
DetailRefreshNext ==
    \E D \in DOMAIN dhook : RefreshDetail(D)

ActionNext ==
    \/ \E id \in RequestIds \cup {<<>>}, act \in ActionNames, pd \in BOOLEAN :
          ExecuteAction(id, act, pd)
    \/ \E id \in RequestIds : ActionResolves(id)
    \/ \E id \in RequestIds : ActionRejects(id)

ExternalNext ==
    \E name \in {EvChanged, EvForce}, rid \in EventIds : ExternalDispatch(name, rid)

\* mount, unmount and successful settling of both data hooks
CoreNext ==
    \/ \E L \in DOMAIN lhook : MountList(L)
    \/ \E L \in DOMAIN lhook : UnmountList(L)
    \/ \E L \in DOMAIN lhook : ListFetchResolves(L)
    \/ \E D \in DOMAIN dhook : MountDetail(D)
    \/ \E D \in DOMAIN dhook : UnmountDetail(D)
    \/ \E D \in DOMAIN dhook : DetailFetchResolves(D)

RejectNext ==
    \/ \E L \in DOMAIN lhook : ListFetchRejects(L)
    \/ \E D \in DOMAIN dhook : DetailFetchRejects(D)

\* executeAction called with arguments that pass its validation
ValidActionNext ==
    \/ \E id \in RequestIds : ExecuteAction(id, "accept", FALSE)
    \/ \E id \in RequestIds : ActionResolves(id)
    \/ \E id \in RequestIds : ActionRejects(id)

\* a page with one list view, the action hook and other dispatching components
Next == ListNext \/ ActionNext \/ ExternalNext

Spec == Init /\ [][Next]_vars

\* a page with two list views
SpecLists == InitLists /\ [][ListNext]_vars

\* a page with a list view and a detail view whose requests are acted on
SpecInvalidate == InitBoth /\ [][CoreNext \/ DetailRefreshNext \/ ValidActionNext]_vars

\* a page with a list view and a detail view receiving events of other components
SpecEvents == InitBoth /\ [][CoreNext \/ RejectNext \/ ExternalNext]_vars

(***************************************************************************)
(* A page with a list view whose components act through the action hook    *)
(* and through the service function.                                       *)
(***************************************************************************)
\* a component calls executeRequestActionV2(requestId, {action, proposedDate})
ServiceExecute(action, hasProposedDate) ==
    /\ svc.netCalls < MaxFetches
    /\ svc' = executeRequestActionV2(svc, action, hasProposedDate)
    /\ UNCHANGED <<hookVars, resolver>>
    /\ OthersUnchanged("svc")

\* the request of a service call settles
ServiceSettles ==
    /\ svc.pending > 0
    /\ svc' = [svc EXCEPT !.pending = @ - 1]
    /\ UNCHANGED <<hookVars, resolver>>
    /\ OthersUnchanged("svc")

ServiceNext ==
    \/ \E act \in ActionNames, pd \in BOOLEAN : ServiceExecute(act, pd)
    \/ ServiceSettles

ValidationNext ==
    \/ \E L \in DOMAIN lhook : MountList(L)
    \/ \E L \in DOMAIN lhook : ListFetchResolves(L)
    \/ ActionNext
    \/ ServiceNext

SpecValidation == Init /\ [][ValidationNext]_vars

(***************************************************************************)
(* Components calling the gateway while tokens are stored and expire.       *)
(***************************************************************************)
InitAuth ==
    /\ NoPage
    /\ resolver = ResolverIdle
    /\ IdleExcept("auth")
    /\ \E w \in BOOLEAN, l \in Slots, ss \in Slots, path \in {DashboardPath, SignInPath} :
          /\ w \/ (l = NoToken /\ ss = NoToken /\ path = DashboardPath)
          /\ auth = [AuthIdle EXCEPT !.hasWindow = w, !.local = l, !.session = ss,
                                     !.pathname = path]

PendingRequests == auth.pending["raw"] + auth.pending["json"]

\* a caller awaits fetchWithAuth(input, init)
CallFetchWithAuth ==
    /\ PendingRequests < MaxRequests
    /\ auth' = fetchWithAuth(auth, "raw")
    /\ UNCHANGED <<hookVars, resolver>>
    /\ OthersUnchanged("auth")

\* a caller awaits fetchJsonWithAuth(input, init), which awaits fetchWithAuth
CallFetchJsonWithAuth ==
    /\ PendingRequests < MaxRequests
    /\ auth' = fetchWithAuth(auth, "json")
    /\ UNCHANGED <<hookVars, resolver>>
    /\ OthersUnchanged("auth")

\* the response of a fetchWithAuth caller arrives: the caller gets res
RawResponse(status) ==
    /\ auth.pending["raw"] > 0
    /\ auth' = [auth EXCEPT !.pending["raw"] = @ - 1,
                            !.last = [NoOutcome EXCEPT !.kind = "response",
                                                       !.status = status]]
    /\ UNCHANGED <<hookVars, resolver>>
    /\ OthersUnchanged("auth")

\* the response of a fetchJsonWithAuth caller arrives
JsonResponse(status, body, statusText) ==
    /\ auth.pending["json"] > 0
    /\ auth' = fetchJsonWithAuthSettles(auth, status, body, statusText)
    /\ UNCHANGED <<hookVars, resolver>>
    /\ OthersUnchanged("auth")

\* the delayed redirect of a session-expired response runs
RedirectTimerFires ==
    /\ auth.timers > 0
    /\ auth' = [Redirect(auth) EXCEPT !.timers = @ - 1]
    /\ UNCHANGED <<hookVars, resolver>>
    /\ OthersUnchanged("auth")

\* time passes: a stored token reaches its expiry
TokenExpires ==
    /\ \/ auth.local = ValidToken /\ auth' = [auth EXCEPT !.local = ExpiredToken]
       \/ auth.session = ValidToken /\ auth' = [auth EXCEPT !.session = ExpiredToken]
    /\ UNCHANGED <<hookVars, resolver>>
    /\ OthersUnchanged("auth")

AuthNext ==
    \/ CallFetchWithAuth
    \/ CallFetchJsonWithAuth
    \/ \E status \in Statuses : RawResponse(status)
    \/ \E status \in Statuses, body \in Bodies, statusText \in StatusTexts :
          JsonResponse(status, body, statusText)
    \/ RedirectTimerFires
    \/ TokenExpires

SpecAuth == InitAuth /\ [][AuthNext]_vars

(***************************************************************************)
(* Components reading, setting and clearing feature flags.                 *)
(***************************************************************************)
\* stored overrides and build-time values of the used flags, and the
\* components Ss rendered with useFeatureFlag, each on its own flag
InitFlagStore(Ss, flagOf) ==
    /\ NoPage
    /\ resolver = ResolverIdle
    /\ IdleExcept("flags")
    /\ \E w \in BOOLEAN, st \in [UsedFlags -> StoredValues], ev \in [UsedFlags -> EnvValues] :
          /\ w \/ (\A f \in UsedFlags : st[f] = Null)
          /\ LET fl == [FlagsIdle EXCEPT
                          !.hasWindow = w,
                          !.store = [f \in FeatureFlag |-> IF f \in UsedFlags THEN st[f] ELSE Null],
                          !.env = [f \in FeatureFlag |-> IF f \in UsedFlags THEN ev[f] ELSE Undef]]
             IN flags = [fl EXCEPT !.subs = [S \in Ss |->
                            [flag |-> flagOf[S], phase |-> "init",
                             enabled |-> getFeatureFlag(fl, flagOf[S])]]]

InitFlags == InitFlagStore({}, << >>)

\* a component calls getFeatureFlag(flag)
GetFlag(flag) ==
    /\ flags' = [flags EXCEPT !.call = "get", !.events = << >>,
                              !.got = [flag |-> flag, value |-> getFeatureFlag(flags, flag)]]
    /\ UNCHANGED <<hookVars, resolver>>
    /\ OthersUnchanged("flags")

\* a component calls setFeatureFlag(flag, enabled)
SetFlag(flag, enabled) ==
    /\ flags' = [setFeatureFlag(flags, flag, enabled) EXCEPT !.call = "set", !.got = NoAnswer]
    /\ UNCHANGED <<hookVars, resolver>>
    /\ OthersUnchanged("flags")

\* a component calls clearFeatureFlag(flag)
ClearFlag(flag) ==
    /\ flags' = [clearFeatureFlag(flags, flag) EXCEPT !.call = "clear", !.got = NoAnswer]
    /\ UNCHANGED <<hookVars, resolver>>
    /\ OthersUnchanged("flags")

FlagStoreNext ==
    \/ \E f \in UsedFlags : GetFlag(f)
    \/ \E f \in UsedFlags, b \in BOOLEAN : SetFlag(f, b)
    \/ \E f \in UsedFlags : ClearFlag(f)

SpecFlags == InitFlags /\ [][FlagStoreNext]_vars

\* two components rendered with useFeatureFlag, one per used flag
InitFlagSubs ==
    InitFlagStore({"S1", "S2"}, [S \in {"S1", "S2"} |->
                                    IF S = "S1" THEN V2_REQUEST_FLOW ELSE PERMISSION_BASED_UI])

\* the effect of useFeatureFlag runs: the listener is registered
MountFlagHook(S) ==
    /\ flags.subs[S].phase = "init"
    /\ flags' = [flags EXCEPT !.subs[S].phase = "mounted", !.call = "none",
                              !.events = << >>, !.got = NoAnswer]
    /\ UNCHANGED <<hookVars, resolver>>
    /\ OthersUnchanged("flags")

\* the cleanup of the effect runs: the listener is removed
UnmountFlagHook(S) ==
    /\ flags.subs[S].phase = "mounted"
    /\ flags' = [flags EXCEPT !.subs[S].phase = "unmounted", !.call = "none",
                              !.events = << >>, !.got = NoAnswer]
    /\ UNCHANGED <<hookVars, resolver>>
    /\ OthersUnchanged("flags")

FlagSubsNext ==
    \/ \E S \in DOMAIN flags.subs : MountFlagHook(S)
    \/ \E S \in DOMAIN flags.subs : UnmountFlagHook(S)
    \/ \E f \in UsedFlags, b \in BOOLEAN : SetFlag(f, b)
    \/ \E f \in UsedFlags : ClearFlag(f)

SpecFlagSubs == InitFlagSubs /\ [][FlagSubsNext]_vars

\* the ids a detail view is rendered with: a request, or nothing selected
DetailIds == {IdA, << >>}

\* what views shown earlier left in the cache, which outlives them
StoredCaches ==
    { [k \in K |-> Resp("earlier", 1)] :
        K \in SUBSET {ListCacheKey(PendingFilter), DetailCacheKey(IdA)} }

\* a page of one data hook, with or without the cache, opened over a cache
\* that earlier views may have filled: a list view, or a detail view
InitKeys ==
    /\ \/ /\ \E f \in Filters, ec \in BOOLEAN :
                lhook = [L \in {"L1"} |-> InitList(L, f, ec)]
          /\ dhook = << >>
       \/ /\ lhook = << >>
          /\ \E id \in DetailIds, ec \in BOOLEAN :
                dhook = [D \in {"D1"} |-> InitDetail(D, id, ec)]
    /\ ahook = [loading |-> FALSE, error |-> NoError,
                inflight |-> [id \in RequestIds |-> 0]]
    /\ cache \in StoredCaches
    /\ resolver = ResolverIdle
    /\ UtilIdle

\* mounts, changes of filter and id, settling fetches and expiring entries
KeysNext ==
    \/ \E L \in DOMAIN lhook : MountList(L)
    \/ \E D \in DOMAIN dhook : MountDetail(D)
    \/ \E L \in DOMAIN lhook, f \in Filters : ChangeFilters(L, f)
    \/ \E D \in DOMAIN dhook, id \in DetailIds : ChangeRequestId(D, id)
    \/ \E L \in DOMAIN lhook : ListFetchResolves(L)
    \/ \E D \in DOMAIN dhook : DetailFetchResolves(D)
    \/ \E L \in DOMAIN lhook : ListFetchRejects(L)
    \/ \E D \in DOMAIN dhook : DetailFetchRejects(D)
    \/ \E key \in DOMAIN cache : CacheEntryExpires(key)

SpecKeys == InitKeys /\ [][KeysNext]_vars

\* one list view and one detail view with the cache, refreshed and invalidated
InitRefresh == InitPageIds({"L1"}, {PendingFilter}, {"D1"}, DetailIds, {TRUE})

RefreshNext ==
    \/ \E L \in DOMAIN lhook : MountList(L)
    \/ \E D \in DOMAIN dhook : MountDetail(D)
    \/ \E L \in DOMAIN lhook : ListFetchResolves(L)
    \/ \E D \in DOMAIN dhook : DetailFetchResolves(D)
    \/ \E L \in DOMAIN lhook : RefreshList(L)
    \/ \E D \in DOMAIN dhook : RefreshDetail(D)
    \/ \E L \in DOMAIN lhook : InvalidateList(L)
    \/ \E D \in DOMAIN dhook : InvalidateDetail(D)

SpecRefresh == InitRefresh /\ [][RefreshNext]_vars

(***************************************************************************)
(* The resolver called by a component for a viewer and a request.          *)
(***************************************************************************)
\* a component holds a viewer and a request and has not yet resolved the actions
InitResolver ==
    /\ NoPage
    /\ UtilIdle
    /\ resolver \in [called : {FALSE}, user : Users, request : Requests,
                      viewerIs : Parties, actions : {<< >>}]

\* the component renders the action buttons of its request for its viewer
ResolveActions ==
    /\ ~resolver.called
    /\ resolver' = [resolver EXCEPT
                      !.called = TRUE,
                      !.actions = getAvailableActionsV2(resolver.user, resolver.request)]
    /\ UNCHANGED <<hookVars, utilVars>>

ResolverNext == ResolveActions

SpecResolver == InitResolver /\ [][ResolverNext]_vars

(***************************************************************************)
(* A component asking hasCapability and canPerformRequestActionV2.         *)
(***************************************************************************)
InitCapability ==
    /\ NoPage
    /\ resolver = ResolverIdle
    /\ IdleExcept("capcheck")
    /\ capcheck \in [asked : {FALSE}, mapped : {FALSE}, user : Users \ {Undefined},
                      capability : Capabilities, result : {FALSE}, allowed : {{}}]

\* the component asks hasCapability(user, capability)
AskCapability ==
    /\ ~capcheck.asked
    /\ capcheck' = [capcheck EXCEPT
                      !.asked = TRUE,
                      !.result = hasCapabilityOf(capcheck.user, capcheck.capability)]
    /\ UNCHANGED <<hookVars, resolver>>
    /\ OthersUnchanged("capcheck")

\* the component asks canPerformRequestActionV2(user, action) for each action
MapActions ==
    /\ ~capcheck.mapped
    /\ capcheck' = [capcheck EXCEPT
                      !.mapped = TRUE,
                      !.allowed = {a \in AskedActions :
                                     canPerformRequestActionV2(capcheck.user, a)}]
    /\ UNCHANGED <<hookVars, resolver>>
    /\ OthersUnchanged("capcheck")

CapabilityNext == AskCapability \/ MapActions

SpecCapability == InitCapability /\ [][CapabilityNext]_vars

(***************************************************************************)
(* A component asking hasCapability and getUserCapabilities for one user.  *)
(***************************************************************************)
InitViews ==
    /\ NoPage
    /\ resolver = ResolverIdle
    /\ IdleExcept("capcheck")
    /\ capcheck \in [asked : {FALSE}, mapped : {TRUE},
                      user : (Users \ {Undefined}) \cup MixedUsers,
                      capability : Capabilities, result : {FALSE}, allowed : {{}},
                      listed : {FALSE}, capabilities : {{}}]

\* the component asks getUserCapabilities(user)
ListCapabilities ==
    /\ "listed" \in DOMAIN capcheck
    /\ ~capcheck.listed
    /\ capcheck' = [capcheck EXCEPT
                      !.listed = TRUE,
                      !.capabilities = getUserCapabilities(capcheck.user)]
    /\ UNCHANGED <<hookVars, resolver>>
    /\ OthersUnchanged("capcheck")

ViewsNext == AskCapability \/ ListCapabilities

SpecViews == InitViews /\ [][ViewsNext]_vars

(***************************************************************************)
(* A component walking a response for the declared actions.                *)
(***************************************************************************)
InitWalk ==
    /\ NoPage
    /\ resolver = ResolverIdle
    /\ IdleExcept("walker")
    /\ \E request \in Responses, other \in {UndefinedNode, Obj([canAccept |-> True])} :
          walker = [walked |-> FALSE,
                    payload |-> [request |-> request, fullRequest |-> other,
                                 resolvedRequest |-> UndefinedNode],
                    set |-> {}]

\* the component renders: useAllowedActionSet(payload)
Walk ==
    /\ ~walker.walked
    /\ walker' = [walker EXCEPT !.walked = TRUE,
                                !.set = useAllowedActionSet(walker.payload)]
    /\ UNCHANGED <<hookVars, resolver>>
    /\ OthersUnchanged("walker")

WalkNext == Walk

SpecWalk == InitWalk /\ [][WalkNext]_vars

(***************************************************************************)
(* A page with one list view and the action hook under a recorder, whose    *)
(* component lets executeAction calls overlap.                              *)
(***************************************************************************)
InitActions ==
    /\ lhook = [L \in {"L1"} |-> InitList(L, PendingFilter, TRUE)]
    /\ dhook = << >>
    /\ ahook = [loading |-> FALSE, error |-> NoError,
                inflight |-> [id \in RequestIds |-> 0],
                calls |-> << >>,
                settled |-> Outcome("none", NoError, << >>)]
    /\ cache = << >>
    /\ resolver = ResolverIdle
    /\ UtilIdle

ActionsNext ==
    \/ \E L \in DOMAIN lhook : MountList(L)
    \/ \E L \in DOMAIN lhook : ListFetchResolves(L)
    \/ \E id \in RequestIds \cup {<<>>}, act \in ActionNames, pd \in BOOLEAN :
          ExecuteActionUpTo(MaxOverlap, id, act, pd)
    \/ \E id \in RequestIds : ActionResolves(id)
    \/ \E id \in RequestIds : ActionRejects(id)

SpecActions == InitActions /\ [][ActionsNext]_vars

(***************************************************************************)
(* A page of one data hook whose effects are cleaned up and run again.      *)
(***************************************************************************)
InitStrict ==
    /\ \/ /\ \E f \in Filters, ec \in BOOLEAN :
                lhook = [L \in {"L1"} |-> InitList(L, f, ec)]
          /\ dhook = << >>
       \/ /\ lhook = << >>
          /\ \E id \in DetailIds, ec \in BOOLEAN :
                dhook = [D \in {"D1"} |-> InitDetail(D, id, ec)]
    /\ ahook = [loading |-> FALSE, error |-> NoError,
                inflight |-> [id \in RequestIds |-> 0]]
    /\ cache = << >>
    /\ resolver = ResolverIdle
    /\ UtilIdle

StrictNext ==
    \/ \E L \in DOMAIN lhook : MountList(L)
    \/ \E L \in DOMAIN lhook : UnmountList(L)
    \/ \E L \in DOMAIN lhook : RemountList(L)
    \/ \E L \in DOMAIN lhook : ListFetchResolves(L)
    \/ \E L \in DOMAIN lhook : ListFetchRejects(L)
    \/ \E D \in DOMAIN dhook : MountDetail(D)
    \/ \E D \in DOMAIN dhook : UnmountDetail(D)
    \/ \E D \in DOMAIN dhook : RemountDetail(D)
    \/ \E D \in DOMAIN dhook : DetailFetchResolves(D)
    \/ \E D \in DOMAIN dhook : DetailFetchRejects(D)
    \/ \E L \in DOMAIN lhook : RefreshList(L)
    \/ \E D \in DOMAIN dhook : RefreshDetail(D)

SpecStrict == InitStrict /\ [][StrictNext]_vars

(***************************************************************************)
(* A page of one data hook with the autoRefresh option.                     *)
(***************************************************************************)
InitPolling ==
    /\ \/ /\ \E f \in Filters, ar \in BOOLEAN :
                lhook = [L \in {"L1"} |->
                            [InitList(L, f, TRUE) EXCEPT !.autoRefresh = ar]]
          /\ dhook = << >>
       \/ /\ lhook = << >>
          /\ \E ar \in BOOLEAN :
                dhook = [D \in {"D1"} |->
                            [InitDetail(D, IdA, TRUE) EXCEPT !.autoRefresh = ar]]
    /\ ahook = [loading |-> FALSE, error |-> NoError,
                inflight |-> [id \in RequestIds |-> 0]]
    /\ cache = << >>
    /\ resolver = ResolverIdle
    /\ UtilIdle

PollingNext ==
    \/ \E L \in DOMAIN lhook : MountList(L)
    \/ \E L \in DOMAIN lhook : UnmountList(L)
    \/ \E L \in DOMAIN lhook : RemountList(L)
    \/ \E L \in DOMAIN lhook, ar \in BOOLEAN : SetListAutoRefresh(L, ar)
    \/ \E L \in DOMAIN lhook, ms \in {30000, 60000} : ChangeRefreshInterval(L, ms)
    \/ \E L \in DOMAIN lhook, f \in Filters : ChangeFilters(L, f)
    \/ \E L \in DOMAIN lhook : ListPollFires(L)
    \/ \E L \in DOMAIN lhook : ListFetchResolves(L)
    \/ \E D \in DOMAIN dhook : MountDetail(D)
    \/ \E D \in DOMAIN dhook : UnmountDetail(D)
    \/ \E D \in DOMAIN dhook : RemountDetail(D)
    \/ \E D \in DOMAIN dhook, ar \in BOOLEAN : SetDetailAutoRefresh(D, ar)
    \/ \E D \in DOMAIN dhook, id \in RequestIds : ChangeRequestId(D, id)
    \/ \E D \in DOMAIN dhook : DetailPollFires(D)
    \/ \E D \in DOMAIN dhook : DetailFetchResolves(D)

SpecPolling == InitPolling /\ [][PollingNext]_vars

(***************************************************************************)
(* A page with a list view, a detail view and the action hook under a       *)
(* recorder: fetches race with an action.                                   *)
(***************************************************************************)
InitRace ==
    /\ lhook = [L \in {"L1"} |-> InitList(L, PendingFilter, TRUE)]
    /\ dhook = [D \in {"D1"} |-> InitDetail(D, IdA, TRUE)]
    /\ ahook = [loading |-> FALSE, error |-> NoError,
                inflight |-> [id \in RequestIds |-> 0],
                calls |-> << >>,
                settled |-> Outcome("none", NoError, << >>),
                settledCall |-> [requestId |-> << >>, action |-> ""],
                fetchesBefore |-> FetchesStarted]
    /\ cache = << >>
    /\ resolver = ResolverIdle
    /\ UtilIdle

RaceNext ==
    \/ \E L \in DOMAIN lhook : MountList(L)
    \/ \E D \in DOMAIN dhook : MountDetail(D)
    \/ \E L \in DOMAIN lhook : ListFetchResolves(L)
    \/ \E D \in DOMAIN dhook : DetailFetchResolves(D)
    \/ \E id \in RequestIds : ExecuteAction(id, "accept", FALSE)
    \/ \E id \in RequestIds : ActionResolves(id)
    \/ \E id \in RequestIds : ActionRejects(id)

SpecRace == InitRace /\ [][RaceNext]_vars

(***************************************************************************)
(* A page of one data hook under a recorder, re-rendered with other         *)
(* filters or another id while fetches are in flight.                      *)
(***************************************************************************)
InitSwitch ==
    /\ \/ /\ \E f \in Filters, ec \in BOOLEAN :
                lhook = [L \in {"L1"} |-> InitList(L, f, ec) @@ [dataKey |-> << >>]]
          /\ dhook = << >>
       \/ /\ lhook = << >>
          /\ \E id \in RequestIds, ec \in BOOLEAN :
                dhook = [D \in {"D1"} |-> InitDetail(D, id, ec) @@ [dataKey |-> << >>]]
    /\ ahook = [loading |-> FALSE, error |-> NoError,
                inflight |-> [id \in RequestIds |-> 0]]
    /\ cache = << >>
    /\ resolver = ResolverIdle
    /\ UtilIdle

SwitchNext ==
    \/ \E L \in DOMAIN lhook : MountList(L)
    \/ \E D \in DOMAIN dhook : MountDetail(D)
    \/ \E L \in DOMAIN lhook, f \in Filters : ChangeFilters(L, f)
    \/ \E D \in DOMAIN dhook, id \in RequestIds : ChangeRequestId(D, id)
    \/ \E L \in DOMAIN lhook : ListFetchResolves(L)
    \/ \E D \in DOMAIN dhook : DetailFetchResolves(D)

SpecSwitch == InitSwitch /\ [][SwitchNext]_vars

(***************************************************************************)
(* A service function handing the parsed response to handleV2Response.     *)
(***************************************************************************)
InitUnwrap ==
    /\ NoPage
    /\ resolver = ResolverIdle
    /\ IdleExcept("unwrap")
    /\ \E response \in Envelopes : unwrap = [UnwrapIdle EXCEPT !.response = response]

Unwrap ==
    /\ unwrap.outcome.kind = "none"
    /\ unwrap' = [unwrap EXCEPT !.outcome = handleV2Response(unwrap.response)]
    /\ UNCHANGED <<hookVars, resolver>>
    /\ OthersUnchanged("unwrap")

UnwrapNext == Unwrap

SpecUnwrap == InitUnwrap /\ [][UnwrapNext]_vars

(***************************************************************************)
(* Properties.                                                             *)
(***************************************************************************)
Range(seq) == {seq[i] : i \in 1..Len(seq)}

StartsWith(str, prefix) ==
    Len(str) >= Len(prefix) /\ \A i \in 1..Len(prefix) : str[i] = prefix[i]

\* a cache key of the request namespace: a list page or a detail entry
RequestRelatedKey(k) == StartsWith(k, ListKeyPrefix) \/ StartsWith(k, DetailKeyPrefix)

\* C1: when executeAction succeeds, the invalidation it performs leaves no
\* list page ('event-requests-v2-...') and no detail entry
\* ('event-request-v2-<id>') that was cached before it in the cache.
C1_ActionPurgesRequestEntries ==
    [][\A id \in RequestIds :
          ActionResolves(id) =>
             \A k \in DOMAIN cache : RequestRelatedKey(k) => k \notin DOMAIN cache']_vars

\* C2: when one executeAction call resolves successfully, every mounted list
\* hook starts exactly one refetch (one more fetchRequests run, one more
\* network call) as a consequence.
C2_OneRefetchPerAction ==
    [][\A id \in RequestIds :
          ActionResolves(id) =>
             \A L \in DOMAIN lhook :
                lhook[L].phase = "mounted" =>
                   /\ lhook'[L].nStarted = lhook[L].nStarted + 1
                   /\ lhook'[L].netCalls = lhook[L].netCalls + 1]_vars

\* C3: when a list hook with enableCache mounts while the mount fetch of
\* another mounted instance with the same cache key (and enableCache) has not
\* resolved yet, it makes no network call and takes its data from the cache.
C3_SecondMountUsesCache ==
    [][\A a \in DOMAIN lhook, b \in DOMAIN lhook :
          ( /\ a # b
            /\ MountList(b)
            /\ lhook[a].phase = "mounted"
            /\ lhook[a].nStarted = 1
            /\ lhook[a].inflight # {}
            /\ lhook[a].enableCache /\ lhook[b].enableCache
            /\ ListCacheKey(lhook[a].filters) = ListCacheKey(lhook[b].filters) )
          => /\ lhook'[b].netCalls = 0
             /\ lhook'[b].last = "cache"]_vars

\* C4: once all overlapping fetches of a mounted list hook have settled, the
\* hook exposes the outcome of the fetch that was initiated last: its
\* response when it resolved, the error state when it rejected.
C4_LastInitiatedFetchWins ==
    \A L \in DOMAIN lhook :
        (lhook[L].phase = "mounted" /\ lhook[L].inflight = {}) =>
            /\ lhook[L].last = "ok" =>
                  /\ lhook[L].requests = Resp(L, lhook[L].nStarted)
                  /\ lhook[L].pagination = Resp(L, lhook[L].nStarted)
                  /\ lhook[L].error = NoError
            /\ lhook[L].last = "fail" =>
                  /\ lhook[L].requests = NoData
                  /\ lhook[L].error # NoError

\* what a list hook exposes to its component
ListVisible(h) == <<h.requests, h.pagination, h.loading, h.error>>

\* C5: a data hook performs no state update (requests, pagination, loading,
\* error) after its component has unmounted.
C5_NoUpdateAfterUnmount ==
    [][\A L \in DOMAIN lhook :
          (lhook[L].phase = "unmounted" /\ lhook'[L].phase = "unmounted") =>
             ListVisible(lhook'[L]) = ListVisible(lhook[L])]_vars

\* a hook started one forced fetch: one more run, and a network call for its
\* current subject whatever the cache holds
StartedForcedList(h, hn) ==
    /\ hn.nStarted = h.nStarted + 1
    /\ hn.netCalls = h.netCalls + 1
    /\ hn.inflight = h.inflight \cup {[n |-> h.nStarted + 1, filters |-> h.filters]}

StartedForcedDetail(h, hn) ==
    /\ hn.nStarted = h.nStarted + 1
    /\ hn.netCalls = h.netCalls + 1
    /\ hn.inflight = h.inflight \cup {[n |-> h.nStarted + 1, requestId |-> h.requestId]}

V2Lifecycle == {PENDING_REVIEW, APPROVED, REJECTED, REVIEW_RESCHEDULED, CANCELLED}

\* the candidate actions of a (lower-cased) status
Candidates(st) ==
    (IF st = PENDING_REVIEW THEN {"accept", "reject"} ELSE {})
    \cup (IF st = REVIEW_RESCHEDULED THEN {"confirm", "decline"} ELSE {})
    \cup (IF st \notin {CANCELLED, REJECTED, COMPLETED} THEN {"cancel"} ELSE {})
    \cup (IF st = APPROVED THEN {"reschedule"} ELSE {})

\* the resolver ran on a viewer and a request that are both present
Resolved == resolver.called /\ resolver.user.defined /\ resolver.request.defined

\* C7: for every viewer and every status of the v2 lifecycle in any letter
\* case, getAvailableActionsV2 returns exactly the candidate actions of the
\* status that the viewer's capabilities allow.
C7_CandidatesByCapability ==
    (Resolved /\ resolver.request.v.status.defined
              /\ toLowerCase(resolver.request.v.status.v) \in V2Lifecycle) =>
        Range(resolver.actions) =
            {a \in Candidates(toLowerCase(resolver.request.v.status.v)) :
                canPerformRequestActionV2(resolver.user, a)}

\* C8: confirm and decline are never offered to the party that is not the
\* request's active responder, whatever capabilities that viewer holds.
C8_OnlyActiveResponderAnswers ==
    (Resolved /\ resolver.request.v.activeResponder.defined
              /\ resolver.request.v.activeResponder.v # resolver.viewerIs) =>
        /\ "confirm" \notin Range(resolver.actions)
        /\ "decline" \notin Range(resolver.actions)

\* statuses outside the known closed set: unrecognised, empty, missing
UnknownStatuses == {Undefined, Some(<<>>), Some(<<"a","r","c","h","i","v","e","d">>)}

\* C9: for a request whose status is not in the known closed set,
\* getAvailableActionsV2 returns the empty list for every viewer.
C9_UnknownStatusNoActions ==
    (Resolved /\ resolver.request.v.status \in UnknownStatuses) =>
        resolver.actions = << >>

\* a permission list holds an entry granting request.update
GrantsRequestUpdate(perms) ==
    \E perm \in perms :
        /\ perm.resource \in {"request", "*"}
        /\ "update" \in perm.actions \/ "*" \in perm.actions

\* the viewer holds request.update: through the permissions list, or through
\* a role when the viewer carries no permissions list
HoldsRequestUpdate(user) ==
    /\ user.defined
    /\ IF user.v.permissions.defined
       THEN GrantsRequestUpdate(user.v.permissions.v)
       ELSE /\ user.v.roles.defined
            /\ \E role \in user.v.roles.v :
                  role.permissions.defined /\ GrantsRequestUpdate(role.permissions.v)

\* C10: an 'approved' request offers a viewer holding request.update the
\* action reschedule and neither confirm nor decline; a 'rejected' request
\* offers no action to any viewer.
C10_ApprovedAndRejected ==
    /\ (Resolved /\ resolver.request.v.status = Some(APPROVED)
                 /\ HoldsRequestUpdate(resolver.user)) =>
           /\ "reschedule" \in Range(resolver.actions)
           /\ "confirm" \notin Range(resolver.actions)
           /\ "decline" \notin Range(resolver.actions)
    /\ (Resolved /\ resolver.request.v.status = Some(REJECTED)) =>
           resolver.actions = << >>

\* C10 witness: an approved request resolved for a viewer whose only grant is
\* request.update: reschedule alone is offered.
C10_Witness ==
    /\ Resolved
    /\ resolver.request.v.status = Some(APPROVED)
    /\ resolver.user.v.permissions = Some({[resource |-> "request", actions |-> {"update"}]})
    /\ resolver.actions = <<"reschedule">>

\* an entry matches resource.action exactly, or by a wildcard
EntryMatches(perm, r, a) ==
    \/ perm.resource = r /\ a \in perm.actions
    \/ perm.resource = "*" /\ (a \in perm.actions \/ "*" \in perm.actions)
    \/ perm.resource = r /\ "*" \in perm.actions

\* C11: over a user's permissions list hasCapability(user, 'r.a') is true
\* exactly when some entry matches r.a exactly or by a wildcard; the list
\* [{*, [*]}] permits all six request actions and [{request, [review]}]
\* permits accept and reject only.
C11_CapabilityMatch ==
    LET u == capcheck.user
        c == capcheck.capability
    IN (u.defined /\ u.v.permissions.defined) =>
        /\ (capcheck.asked /\ Len(c) = 2) =>
              (capcheck.result <=>
                  \E perm \in u.v.permissions.v : EntryMatches(perm, c[1], c[2]))
        /\ (capcheck.mapped
              /\ u.v.permissions.v = {[resource |-> "*", actions |-> {"*"}]}) =>
              capcheck.allowed = {"accept", "reject", "reschedule", "confirm",
                                  "decline", "cancel"}
        /\ (capcheck.mapped
              /\ u.v.permissions.v = {[resource |-> "request", actions |-> {"review"}]}) =>
              capcheck.allowed = {"accept", "reject"}

\* C11 witness: both questions answered for a viewer whose only entry is the
\* wildcard resource with the exact action review
C11_Witness ==
    /\ capcheck.asked /\ capcheck.mapped
    /\ capcheck.user.v.permissions = Some({[resource |-> "*", actions |-> {"review"}]})
    /\ capcheck.capability = <<"request", "review">>
    /\ capcheck.result
    /\ capcheck.allowed = {"accept", "reject"}

\* the values inside a value, each with its depth: the value itself at depth
\* d, the fields of an object and the elements of an array one level deeper
RECURSIVE NodesWithDepth(_, _)
NodesWithDepth(node, d) ==
    {<<node, d>>}
    \cup (IF node.kind = "object"
          THEN UNION {NodesWithDepth(node.fields[k], d + 1) : k \in DOMAIN node.fields}
          ELSE {})
    \cup (IF node.kind = "array"
          THEN UNION {NodesWithDepth(node.elems[i], d + 1) : i \in 1..Len(node.elems)}
          ELSE {})

PayloadNodes(payload) ==
    NodesWithDepth(payload.request, 0) \cup NodesWithDepth(payload.fullRequest, 0)
        \cup NodesWithDepth(payload.resolvedRequest, 0)

\* C12: the allowed-action walk is bounded by depth 4 (the value passed in
\* at depth 0, each object or array entered one level deeper): the result is
\* exactly the normalized, deduplicated signals of the nodes at depth <= 4;
\* signals carried only by nodes at depth >= 5 are never collected.
C12_WalkDepthBound ==
    walker.walked =>
        walker.set = UNION {Ingest(nd[1]) :
                              nd \in {x \in PayloadNodes(walker.payload) : x[2] <= 4}}

\* C13: a client-side validation failure never reaches the network:
\* executeAction with an empty request id, an empty action or 'reschedule'
\* without proposedDate sets error to the validation message and loading to
\* false, makes no service call, leaves the cache as it is and dispatches no
\* event; executeRequestActionV2 with 'reschedule' without proposedDate
\* rejects without a network call.
C13_ValidationBeforeNetwork ==
    [][
        /\ \A id \in RequestIds \cup {<< >>}, act \in ActionNames, pd \in BOOLEAN :
              (ExecuteAction(id, act, pd)
                  /\ (id = << >> \/ act = "" \/ (act = "reschedule" /\ ~pd))) =>
                  (/\ ahook'.inflight = ahook.inflight
                   /\ ahook'.error # NoError
                   /\ ahook'.error = ValidationError(id, act, pd)
                   /\ ahook'.loading = FALSE
                   /\ cache' = cache
                   /\ lhook' = lhook /\ dhook' = dhook)
        /\ ServiceExecute("reschedule", FALSE) =>
              (/\ svc'.netCalls = svc.netCalls /\ svc'.pending = svc.pending
               /\ svc'.error # NoError)
    ]_vars

\* C13 witness: after both kinds of rejected call, with a mounted list view
\* and a cached list page: no service call was made
C13_Witness ==
    /\ ahook.error = "Proposed date is required for reschedule action"
    /\ ~ahook.loading /\ ActionsInFlight = 0
    /\ svc.error = "proposedDate is required for reschedule action"
    /\ svc.netCalls = 0
    /\ lhook["L1"].phase = "mounted" /\ lhook["L1"].nStarted = 1
    /\ cache # << >>

\* the token the gateway reads from the two storage slots has expired
ReadsExpiredToken ==
    /\ auth.hasWindow
    /\ \/ auth.local.present /\ auth.local.expired
       \/ ~auth.local.present /\ auth.session.present /\ auth.session.expired

\* the browser is under /auth
UnderAuth == auth.pathname = SignInPath

\* C14: when the stored token is expired at the time fetchWithAuth is called,
\* no network request is issued for the call, the stored credentials are
\* cleared, the browser is redirected to the sign-in route unless it is
\* already under /auth, and the call rejects with 'Token expired'.
C14_ExpiredTokenNoRequest ==
    [][((CallFetchWithAuth \/ CallFetchJsonWithAuth) /\ ReadsExpiredToken) =>
          /\ auth'.pending = auth.pending
          /\ auth'.local = NoToken /\ auth'.session = NoToken
          /\ IF UnderAuth
             THEN auth'.redirects = auth.redirects /\ auth'.pathname = auth.pathname
             ELSE auth'.redirects /\ auth'.pathname = SignInPath
          /\ auth'.last.kind = "rejected"
          /\ auth'.last.message = TokenExpiredMessage]_vars

\* C14 witness: a call made with an expired token away from /auth: rejected,
\* credentials cleared, redirected, nothing sent
C14_Witness ==
    /\ auth.last.kind = "rejected" /\ auth.last.message = TokenExpiredMessage
    /\ auth.redirects /\ auth.pathname = SignInPath
    /\ auth.local = NoToken /\ auth.session = NoToken
    /\ PendingRequests = 0

\* the message of an error response
ResponseMessage(body, statusText) ==
    IF body.message # << >> THEN body.message
    ELSE IF body.error # << >> THEN body.error
    ELSE IF statusText # << >> THEN statusText
    ELSE RequestFailed

\* C15: for every non-2xx response handled by fetchJsonWithAuth while a token
\* is stored, credentials are cleared and the delayed redirect scheduled only
\* when the status is 401 and the message is not permission-flavored; on 403
\* and on 401 with a message containing 'permission' the credentials stay as
\* they are; the call throws an error carrying the message, the status and
\* the parsed body, with isAuthError set exactly for 401 and 403.
C15_AuthErrorHandling ==
    [][\A status \in Statuses, body \in Bodies, statusText \in StatusTexts :
          (JsonResponse(status, body, statusText) /\ ~(status \in 200..299)
              /\ auth.hasWindow /\ (auth.local.present \/ auth.session.present)) =>
             LET msg == ResponseMessage(body, statusText)
                 flavored == Contains(toLowerCase(msg), PermissionWord)
                 kept == /\ auth'.local = auth.local /\ auth'.session = auth.session
                         /\ auth'.timers = auth.timers
             IN /\ ~kept => (status = 401 /\ ~flavored)
                /\ (status = 403 \/ (status = 401 /\ Contains(msg, PermissionWord))) => kept
                /\ auth'.last.kind = "rejected"
                /\ auth'.last.message = msg
                /\ auth'.last.status = status
                /\ auth'.last.body = body
                /\ auth'.last.isAuthError <=> status \in {401, 403}]_vars

\* C15 witness: a 401 whose message speaks of permission in capitals was
\* surfaced with the credentials kept, and no redirect is scheduled
C15_Witness ==
    /\ auth.last.kind = "rejected" /\ auth.last.status = 401
    /\ auth.last.isAuthError
    /\ Contains(toLowerCase(auth.last.message), PermissionWord)
    /\ ~Contains(auth.last.message, PermissionWord)
    /\ auth.local = ValidToken
    /\ auth.timers = 0 /\ ~auth.redirects

\* the value of a flag by priority: override, environment, default false
ByPriority(flag) ==
    IF flags.hasWindow /\ flags.store[flag] # Null THEN flags.store[flag] = "true"
    ELSE IF flags.env[flag] # Undef THEN flags.env[flag] = "true"
    ELSE FALSE

\* C16: getFeatureFlag resolves a flag by priority: a stored override
\* ('true' or 'false') wins over the environment value, which wins over the
\* hardcoded default, false for every flag; with override false and
\* environment true get returns false, and after clearFeatureFlag true.
C16_FlagPriority ==
    [][\A f \in UsedFlags :
          (GetFlag(f) /\ flags.store[f] \in {Null, "true", "false"}) =>
              /\ flags'.got = [flag |-> f, value |-> ByPriority(f)]
              /\ (flags.store[f] = "false" /\ flags.env[f] = "true") => ~flags'.got.value
              /\ (flags.store[f] = Null /\ flags.env[f] = "true") => flags'.got.value
              /\ (flags.store[f] = Null /\ flags.env[f] = Undef) => ~flags'.got.value]_vars

\* C16 witness: the environment says true, no override is stored, and get
\* answered true
C16_Witness ==
    /\ flags.call = "get"
    /\ flags.got = [flag |-> V2_REQUEST_FLOW, value |-> TRUE]
    /\ flags.store[V2_REQUEST_FLOW] = Null
    /\ flags.env[V2_REQUEST_FLOW] = "true"

\* C18: a stored override that is neither 'true' nor 'false' counts as
\* missing: getFeatureFlag returns the environment value if defined, else the
\* hardcoded default.
C18_InvalidOverrideIsMissing ==
    [][\A f \in UsedFlags :
          (GetFlag(f) /\ flags.hasWindow /\ flags.store[f] \notin {Null, "true", "false"}) =>
              flags'.got.value = (IF flags.env[f] # Undef THEN flags.env[f] = "true"
                                  ELSE DEFAULT_FLAGS[f])]_vars

\* C17: every setFeatureFlag and clearFeatureFlag call dispatches exactly
\* one 'unite:feature-flag-changed' event carrying {flag, enabled}; after the
\* call every mounted useFeatureFlag(f) subscriber holds getFeatureFlag(f),
\* and subscribers of other flags are left unchanged.
C17_SubscribersFollowStore ==
    [][\A f \in UsedFlags :
          (((\E b \in BOOLEAN : SetFlag(f, b)) \/ ClearFlag(f)) /\ flags.hasWindow) =>
              /\ Len(flags'.events) = 1
              /\ flags'.events[1] = [flag |-> f, enabled |-> getFeatureFlag(flags', f)]
              /\ \A S \in DOMAIN flags.subs :
                    /\ flags'.subs[S].phase = "mounted" =>
                          flags'.subs[S].enabled = getFeatureFlag(flags', flags'.subs[S].flag)
                    /\ flags.subs[S].flag # f => flags'.subs[S] = flags.subs[S]]_vars

\* a fetch of list hook L started by its mount or by a change of its cache key
ListKeyFetch(L) == MountList(L) \/ \E f \in Filters : ChangeFilters(L, f)

\* a fetch of detail hook D started by its mount or by a change of its id
DetailKeyFetch(D) == MountDetail(D) \/ \E id \in DetailIds : ChangeRequestId(D, id)

\* the entries of the cache that a step wrote
Written == { k \in DOMAIN cache' : k \notin DOMAIN cache \/ cache'[k] # cache[k] }

\* C19: a fetch started by the mount or by a change of the cache key of a data
\* hook with enableCache that finds an entry under its key adopts the entry as
\* its data, ends with loading false and error null and makes no network
\* call; such a fetch calls the service only when there is no entry or
\* enableCache is false; and the cache is written only by a call that resolved.
C19_CacheFirstOnKeyFetch ==
    [][
        /\ \A L \in DOMAIN lhook : ListKeyFetch(L) =>
              LET key == ListCacheKey(lhook'[L].filters)
                  hit == lhook[L].enableCache /\ HasCached(cache, key)
              IN /\ hit => /\ lhook'[L].requests = cache[key]
                           /\ lhook'[L].pagination = cache[key]
                           /\ lhook'[L].loading = FALSE
                           /\ lhook'[L].error = NoError
                           /\ lhook'[L].netCalls = lhook[L].netCalls
                           /\ lhook'[L].inflight = lhook[L].inflight
                 /\ (lhook'[L].netCalls # lhook[L].netCalls) => ~hit
        /\ \A D \in DOMAIN dhook : DetailKeyFetch(D) =>
              LET key == DetailCacheKey(dhook'[D].requestId)
                  hit == dhook[D].enableCache /\ HasCached(cache, key)
              IN /\ hit => /\ dhook'[D].request = cache[key]
                           /\ dhook'[D].loading = FALSE
                           /\ dhook'[D].error = NoError
                           /\ dhook'[D].netCalls = dhook[D].netCalls
                           /\ dhook'[D].inflight = dhook[D].inflight
                 /\ (dhook'[D].netCalls # dhook[D].netCalls) => ~hit
        /\ (Written # {}) =>
              \/ \E L \in DOMAIN lhook : ListFetchResolves(L)
              \/ \E D \in DOMAIN dhook : DetailFetchResolves(D)
    ]_vars

\* the list hook shows an entry adopted from the cache after a change of its
\* filters that made no network call
C19_Witness ==
    /\ DOMAIN lhook = {"L1"}
    /\ lhook["L1"].last = "cache" /\ lhook["L1"].nStarted = 2
    /\ lhook["L1"].netCalls = 1 /\ lhook["L1"].inflight = {}
    /\ lhook["L1"].error = NoError /\ ~lhook["L1"].loading
    /\ lhook["L1"].requests = getCachedResponse(cache, ListCacheKey(lhook["L1"].filters))

\* what invalidate() of a hook whose key is key does: the entry under key is
\* gone, every other entry is kept, no hook changes and no fetch starts
InvalidatesOnly(key) ==
    /\ DOMAIN cache' = DOMAIN cache \ {key}
    /\ \A k \in DOMAIN cache' : cache'[k] = cache[k]
    /\ lhook' = lhook /\ dhook' = dhook

\* invalidate() of either hook removes its own entry only
InvalidateFrame ==
    /\ \A L \in DOMAIN lhook :
          InvalidateList(L) => InvalidatesOnly(ListCacheKey(lhook[L].filters))
    /\ \A D \in DOMAIN dhook :
          InvalidateDetail(D) => InvalidatesOnly(DetailCacheKey(dhook[D].requestId))

\* refresh() of a list hook makes one network call
ListRefreshCalls ==
    \A L \in DOMAIN lhook :
        RefreshList(L) => /\ lhook'[L].netCalls = lhook[L].netCalls + 1
                          /\ Cardinality(lhook'[L].inflight) =
                                Cardinality(lhook[L].inflight) + 1

\* refresh() of detail hook D makes one network call
DetailRefreshCalls(D) ==
    /\ dhook'[D].netCalls = dhook[D].netCalls + 1
    /\ Cardinality(dhook'[D].inflight) = Cardinality(dhook[D].inflight) + 1

\* C20: refresh() of a data hook always performs a network call, also when an
\* entry is cached under its key; invalidate() removes only the entry under
\* the hook's own key, leaves every other entry and the hook's state
\* unchanged and starts no fetch.
C20_RefreshAndInvalidate ==
    [][
        /\ ListRefreshCalls
        /\ \A D \in DOMAIN dhook : RefreshDetail(D) => DetailRefreshCalls(D)
        /\ InvalidateFrame
    ]_vars

\* C20, amended: as C20, the refresh() of a detail hook performing a network
\* call when the hook has a requestId; without one it sets the error
\* 'Request ID is required' and calls nothing.
C20_RefreshWithIdAndInvalidate ==
    [][
        /\ ListRefreshCalls
        /\ \A D \in DOMAIN dhook : RefreshDetail(D) =>
              IF dhook[D].requestId # << >>
              THEN DetailRefreshCalls(D)
              ELSE /\ dhook'[D].netCalls = dhook[D].netCalls
                   /\ dhook'[D].inflight = dhook[D].inflight
                   /\ dhook'[D].error = "Request ID is required"
        /\ InvalidateFrame
    ]_vars

\* the list hook, its first answer shown and cached, was refreshed and then
\* invalidated: its second call is in flight, its entry is gone and the
\* entry of the detail hook is still there
C20_Witness ==
    /\ lhook["L1"].requests = Resp("L1", 1)
    /\ lhook["L1"].netCalls = 2
    /\ lhook["L1"].inflight = {[n |-> 2, filters |-> lhook["L1"].filters]}
    /\ ~HasCached(cache, ListCacheKey(lhook["L1"].filters))
    /\ HasCached(cache, DetailCacheKey(IdA))
    /\ dhook["D1"].netCalls = 2

\* C21: handleV2Response returns exactly the data field whenever success is
\* true, also when data is undefined, an empty array or an empty object, and
\* does not throw; when success is false it throws an error whose message is
\* the message of the envelope, or a non-empty default when the envelope
\* carries none (no message field, or an empty one).
C21_EnvelopeUnwrap ==
    unwrap.outcome.kind # "none" =>
        LET response == unwrap.response
            message == Get(response, "message")
        IN /\ Get(response, "success") = True =>
                 /\ unwrap.outcome.kind = "returns"
                 /\ unwrap.outcome.value = Get(response, "data")
           /\ Get(response, "success") = False =>
                 /\ unwrap.outcome.kind = "throws"
                 /\ unwrap.outcome.message # << >>
                 /\ (message.kind = "string" /\ message.v # << >>) =>
                        unwrap.outcome.message = message.v

\* a successful envelope with an empty array as data has been unwrapped
C21_Witness ==
    /\ Get(unwrap.response, "success") = True
    /\ Get(unwrap.response, "data") = Arr(<< >>)
    /\ unwrap.outcome.kind = "returns" /\ unwrap.outcome.value = Arr(<< >>)

\* a step that invalidates the request entries of the cache or hands an event
\* to a subscribed data hook
HasSideEffect ==
    \/ \E k \in DOMAIN cache : PatternMatches(InvalidatePattern, k) /\ k \notin DOMAIN cache'
    \/ \E L \in DOMAIN lhook : lhook[L].phase # "init" /\ lhook'[L].nStarted > lhook[L].nStarted

\* C22: the side effects of executeAction follow the outcome of the service
\* call: the cache invalidation, then 'unite:requests-changed' (requestId,
\* action, timestamp), then 'unite:force-refresh-requests' (requestId,
\* reason), only after the call resolved; when the call fails the cache is
\* not invalidated, no event is dispatched, error is the thrown message and
\* the promise rejects with the same error.
C22_EffectsFollowOutcome ==
    [][
        /\ \A id \in RequestIds : ActionResolves(id) =>
              LET done == ahook'.settled IN
              /\ done.kind = "resolved" /\ Len(done.effects) = 3
              /\ done.effects[1].op = "invalidateCache"
              /\ cache' = invalidateCache(cache, InvalidatePattern)
              /\ done.effects[2].op = "dispatchEvent"
              /\ done.effects[2].name = "unite:requests-changed"
              /\ done.effects[2].detail.requestId = id
              /\ \E k \in 1..Len(ahook.calls) :
                    /\ ahook.calls[k].requestId = id
                    /\ done.effects[2].detail.action = ahook.calls[k].action
                    /\ done.effects[3].detail.reason = ahook.calls[k].action \o "-action"
              /\ "timestamp" \in DOMAIN done.effects[2].detail
              /\ done.effects[3].op = "dispatchEvent"
              /\ done.effects[3].name = "unite:force-refresh-requests"
              /\ done.effects[3].detail.requestId = id
              /\ \A L \in DOMAIN lhook : Subscribed(lhook[L]) =>
                    lhook'[L] = ListOnEvents(lhook[L], cache', ActionEvents(id))
        /\ \A id \in RequestIds : ActionRejects(id) =>
              /\ cache' = cache /\ lhook' = lhook /\ dhook' = dhook
              /\ ahook'.settled.kind = "rejected"
              /\ ahook'.settled.effects = << >>
              /\ ahook'.error = ahook'.settled.message
              /\ ahook'.error # NoError
        /\ HasSideEffect => \E id \in RequestIds : ActionResolves(id)
    ]_vars

\* one call resolved and the hook has gone on to a call that was rejected
\* with 'Permission denied', the list view refetching after the first
C22_Witness ==
    /\ ahook.settled = Outcome("rejected", "Permission denied", << >>)
    /\ ahook.error = "Permission denied"
    /\ lhook["L1"].netCalls = 3
    /\ ~HasCached(cache, ListCacheKey(PendingFilter))

\* C23: loading of the action hook is true whenever at least one executeAction
\* call of the instance has been started and has not settled, also when two
\* calls overlap, and false once all calls have settled.
C23_LoadingWhileInFlight ==
    Recording => (ahook.loading <=> ActionsInFlight > 0)

\* C29: a data hook that ends up mounted, a detail hook with a requestId or a
\* list hook, has loading false once its network calls have settled, also
\* after its effects were cleaned up and run again on the same instance.
C29_LoadingEndsAfterRemount ==
    /\ \A D \in DOMAIN dhook :
          (/\ dhook[D].phase = "mounted" /\ dhook[D].requestId # << >>
           /\ dhook[D].inflight = {}) => ~dhook[D].loading
    /\ \A L \in DOMAIN lhook :
          (lhook[L].phase = "mounted" /\ lhook[L].inflight = {}) => ~lhook[L].loading

\* the failure of a service call ends the fetch of a mounted hook in the error
\* state: no data, a message, loading false
ListFailureShown(L) ==
    (lhook[L].phase = "mounted" /\ ListFetchRejects(L)) =>
        /\ lhook'[L].requests = NoData /\ lhook'[L].pagination = NoData
        /\ lhook'[L].error \notin {NoError, ""}
        /\ ~lhook'[L].loading

DetailFailureShown(D) ==
    (dhook[D].phase = "mounted" /\ DetailFetchRejects(D)) =>
        /\ dhook'[D].request = NoData
        /\ dhook'[D].error \notin {NoError, ""}
        /\ ~dhook'[D].loading

\* a fetch that goes to the network leaves loading true and error null
FetchLeavesError ==
    /\ \A L \in DOMAIN lhook : lhook'[L].netCalls > lhook[L].netCalls =>
          lhook'[L].loading /\ lhook'[L].error = NoError
    /\ \A D \in DOMAIN dhook : dhook'[D].netCalls > dhook[D].netCalls =>
          dhook'[D].loading /\ dhook'[D].error = NoError

\* C24: when the service call of a mounted data hook fails, the hook ends that
\* fetch with its data cleared, a non-empty error message and loading false;
\* the error state is not terminal: a later fetch sets loading true and error
\* null again.
C24_FailureEndsInError ==
    [][
        /\ \A L \in DOMAIN lhook : ListFailureShown(L)
        /\ \A D \in DOMAIN dhook : DetailFailureShown(D)
        /\ FetchLeavesError
    ]_vars

\* the timers of a hook: at most one is live, and only while the hook is
\* mounted with autoRefresh
PollingBounded(h) ==
    /\ Cardinality(h.live) <= 1
    /\ h.live # {} => (h.phase = "mounted" /\ h.autoRefresh)

\* C25: polling is active only while the hook is mounted with autoRefresh:
\* each hook instance has at most one live timer, the timer is cleared when
\* autoRefresh turns false, when the effect runs again for new filters or a
\* new interval and on unmount, and no fetch triggered by polling starts
\* after unmount or while autoRefresh is false.
C25_PollingOnlyWhileMounted ==
    [][
        /\ \A L \in DOMAIN lhook :
              /\ PollingBounded(lhook[L]) /\ PollingBounded(lhook'[L])
              /\ ListPollFires(L) => (lhook[L].phase = "mounted" /\ lhook[L].autoRefresh)
              /\ (\/ UnmountList(L) \/ SetListAutoRefresh(L, FALSE)
                  \/ \E f \in Filters : ChangeFilters(L, f)
                  \/ \E ms \in {30000, 60000} : ChangeRefreshInterval(L, ms))
                    => lhook[L].live \cap lhook'[L].live = {}
        /\ \A D \in DOMAIN dhook :
              /\ PollingBounded(dhook[D]) /\ PollingBounded(dhook'[D])
              /\ DetailPollFires(D) => (dhook[D].phase = "mounted" /\ dhook[D].autoRefresh)
              /\ (\/ UnmountDetail(D) \/ SetDetailAutoRefresh(D, FALSE)
                  \/ \E id \in RequestIds : ChangeRequestId(D, id))
                    => dhook[D].live \cap dhook'[D].live = {}
    ]_vars

\* the list hook polls on its third timer: two earlier ones were cleared
C25_Witness ==
    /\ DOMAIN lhook = {"L1"}
    /\ lhook["L1"].live = {3} /\ lhook["L1"].timersMade = 3
    /\ lhook["L1"].netCalls >= 2

\* no call of any hook of the page is awaiting an answer
AllSettled ==
    /\ ActionsInFlight = 0
    /\ \A L \in DOMAIN lhook : lhook[L].inflight = {}
    /\ \A D \in DOMAIN dhook : dhook[D].inflight = {}

\* the entry under key holds a response that was asked for before the call
\* that settled last resolved: the server may have produced it before the
\* action
AskedBefore(key) ==
    LET entry == cache[key] before == ahook.fetchesBefore
    IN \/ entry.src \in DOMAIN before.lists /\ entry.n <= before.lists[entry.src]
       \/ entry.src \in DOMAIN before.details /\ entry.n <= before.details[entry.src]

\* the keys whose responses show the request a call acted on: every list, and
\* the details of that request
KeysShowing(call) ==
    {k \in DOMAIN cache : StartsWith(k, ListKeyPrefix) \/ k = DetailCacheKey(call.requestId)}

\* C26: once executeAction has succeeded and every fetch in flight at that
\* moment or triggered by its events has settled, no cache entry holds a
\* response the server produced before the action, in any order of arrival.
C26_NoStaleEntryAfterAction ==
    ("fetchesBefore" \in DOMAIN ahook /\ ahook.settled.kind = "resolved" /\ AllSettled) =>
        \A k \in KeysShowing(ahook.settledCall) : ~AskedBefore(k)

\* C27: a data hook never ends up showing data of another key: when its
\* filters or its requestId changed while a fetch was in flight, then once
\* all its fetches have settled the data it shows was fetched, or cached,
\* for its current cache key, in any order of arrival of the responses.
C27_DataOfCurrentKey ==
    /\ \A L \in DOMAIN lhook :
          (/\ "dataKey" \in DOMAIN lhook[L] /\ lhook[L].phase = "mounted"
           /\ lhook[L].inflight = {} /\ lhook[L].requests # NoData)
            => lhook[L].dataKey = ListCacheKey(lhook[L].filters)
    /\ \A D \in DOMAIN dhook :
          (/\ "dataKey" \in DOMAIN dhook[D] /\ dhook[D].phase = "mounted"
           /\ dhook[D].inflight = {} /\ dhook[D].request # NoData)
            => dhook[D].dataKey = DetailCacheKey(dhook[D].requestId)

\* C28: for a mounted list or detail data hook, loading is true at every
\* moment at which a network fetch started by that instance has not yet
\* settled; when two fetches overlap, the settling of the first leaves
\* loading true while the second is outstanding.
C28_LoadingWhileFetching ==
    /\ \A L \in DOMAIN lhook :
          (lhook[L].phase = "mounted" /\ lhook[L].inflight # {})
            => lhook[L].loading
    /\ \A D \in DOMAIN dhook :
          (dhook[D].phase = "mounted" /\ dhook[D].inflight # {})
            => dhook[D].loading

\* the capability list holds '*', '*.action', 'resource.*' or 'resource.action'
Covers(capabilities, resource, action) ==
    \/ <<"*">> \in capabilities
    \/ <<"*", action>> \in capabilities
    \/ <<resource, "*">> \in capabilities
    \/ <<resource, action>> \in capabilities

\* C30: the two capability views agree: for every user and every capability
\* 'r.a', hasCapability(user, 'r.a') is true if and only if
\* getUserCapabilities(user) contains '*', '*.a', 'r.*' or 'r.a'.
C30_CapabilityViewsAgree ==
    ("listed" \in DOMAIN capcheck /\ capcheck.asked /\ capcheck.listed
       /\ Len(capcheck.capability) = 2)
      => (capcheck.result
            <=> Covers(capcheck.capabilities, capcheck.capability[1],
                       capcheck.capability[2]))

=============================================================================
